---- MODULE Spec2Model ----
(***************************************************************************)
(* The revision-tracked comment store and the corpus ingestion of          *)
(* yaskevich/supercat, as state machines over one PostgreSQL database      *)
(* reached through one node-postgres connection pool.                      *)
(*                                                                         *)
(* An `await` is a scheduling point: every action below is the completion  *)
(* of the query a caller is waiting for, followed by the synchronous code  *)
(* up to the caller's next query (which is dispatched in the same turn of  *)
(* the event loop).                                                        *)
(***************************************************************************)
EXTENDS Integers, Sequences, FiniteSets, Bags, TLC

\* ---------------------------------------------------------------- bounds
PoolMax == 2        \* clients the pool may hold (new Pool(): options.max)
MaxBatch == 2       \* items of an ingested batch
MaxFaults == 1      \* statements the environment lets fail in one run
MaxLogs == 3        \* rows of the logs table when the log view is opened
MaxInflight == 2    \* 'logs' requests of one view in flight at a time
MaxCalls == 2        \* calls each caller of setCommentForString makes
MaxUsers == 2        \* users the table holds in a run of the settings specification
MaxOps == 2         \* requests the server is sent in one run of the access specification

Clients == 1..PoolMax
CProcs == {"c1", "c2", "c3"}      \* concurrent callers of setComment
\* callers are named in the order in which they call
Earlier == [c1 |-> {}, c2 |-> {"c1"}, c3 |-> {"c1", "c2"}, i1 |-> {}, i2 |-> {"i1"}]
IProcs == {"i1", "i2"}            \* concurrent callers of insertBatchIntoStrings
SProcs == {"s1", "s2"}            \* concurrent callers of setCommentForString
Procs == CProcs \cup IProcs

VARIABLES
  db,        \* committed tables: comments, logs, tokens, strings (id -> row)
  ov,        \* per client: rows written by its open transaction, not yet committed
  txn,       \* per client: "none" | "open" | "aborted" (state of its session)
  serial,    \* the SERIAL sequences of the tables (never rolled back)
  pool,      \* [clients, idle, pending] of pg-pool
  held,      \* per caller: the client its query runs on (0: none / waiting)
  faults,    \* statements failed by the environment so far
  cpc,       \* per setComment caller: the query it is waiting for
  cparams,   \* per setComment caller: params
  cprev,     \* per setComment caller: previousCommentObject
  cdata,     \* per setComment caller: data
  cret,      \* per setComment caller: the value returned
  overwritten, \* history: the row image a caller's UPDATE replaced
  ipc,       \* per ingestion: the query it is waiting for
  iarg,      \* per ingestion: [textId, batch, length, langId]; batch holds the items up
             \* to the one the loop has reached (the later ones are drawn when it gets there)
  idx,       \* per ingestion: i, the index of the current batch item
  ierr,      \* per ingestion: the statement whose error was caught ("" if none)
  iret,      \* per ingestion: the value returned
  irel,      \* history: per ingestion, the calls of client.release() it has made
  pagination, \* Logs.vue: [page, pageSize, itemCount]
  logs,      \* Logs.vue: the rows the table shows
  isLoading, \* Logs.vue: the table's loading flag
  isLoaded,  \* Logs.vue: the card is rendered (onBeforeMount has run)
  inflight,  \* Logs.vue: the bag of 'logs' requests sent and not yet consumed, with their replies
  query,     \* Logs.vue: [text_id |-> store.state.user.text_id, comment |-> route query]
  scheme,    \* Logs.vue: the reactive object scheme, as its keys in the order of insertion
  mpc,       \* Logs.vue: the position of onBeforeMount
  changes,   \* Logs.vue: what the Changes column last rendered, [id, created, fields]
  op,        \* history: the request served last, [n, name, user, target, status, ret]
  userForm,  \* User.vue (form): [store, id, user, isLoaded]
  del,       \* the deleteTag / deleteIssue call in progress: [pc, table, id, comments,
             \* success, ui (it was sent by Tags.vue)]
  tagsView,  \* Tags.vue: [tags (the ids of the list shown), isLoaded]
  out,       \* per function (getStats, deleteById, updateSettings, createUser): its call in
             \* progress or served last, [pc, ...] with the arguments and the value returned
  settings,  \* User.vue: the module variable settings (the cached settings row)
  spc        \* per setCommentForString caller: [pc, id, tokens, data, calls (made so far)]

vars == <<db, ov, txn, serial, pool, held, faults, cpc, cparams, cprev, cdata,
          cret, overwritten, ipc, iarg, idx, ierr, iret, irel,
          pagination, logs, isLoading, isLoaded, inflight, query, scheme, mpc, changes,
          op, userForm, del, tagsView, out, settings, spc>>
dbVars == <<db, ov, txn, serial, pool, held, faults>>
cVars == <<cpc, cparams, cprev, cdata, cret, overwritten>>
iVars == <<ipc, iarg, idx, ierr, iret, irel>>
lVars == <<pagination, logs, isLoading, isLoaded, inflight, query, scheme, mpc, changes>>
aVars == <<op, userForm>>
xVars == <<del, tagsView>>
yVars == <<out, settings, spc>>

\* ------------------------------------------------------------ JS values
\* A property of an object is <<>> when absent (undefined) and <<v>> when present.
Absent == << >>
Some(v) == <<v>>
Range(s) == {s[i] : i \in DOMAIN s}
Min(S) == CHOOSE x \in S : \A y \in S : x <= y
Last(s) == s[Len(s)]
Front(s) == SubSeq(s, 1, Len(s) - 1)
Put(f, k, v) == [x \in DOMAIN f \cup {k} |-> IF x = k THEN v ELSE f[x]]
Merge(f, g) == [x \in DOMAIN f \cup DOMAIN g |-> IF x \in DOMAIN g THEN g[x] ELSE f[x]]
NoRows == [x \in {} |-> 0]

\* String.prototype.trim on a string given as its sequence of characters
RECURSIVE trimStart(_)
trimStart(s) == IF s # <<>> /\ Head(s) = " " THEN trimStart(Tail(s)) ELSE s
RECURSIVE trimEnd(_)
trimEnd(s) == IF s # <<>> /\ Last(s) = " " THEN trimEnd(Front(s)) ELSE s
trim(s) == trimEnd(trimStart(s))

EmptyObject ==
  [id |-> Absent, text_id |-> Absent, title |-> Absent, published |-> Absent,
   priority |-> Absent, tags |-> Absent, issues |-> Absent, entry |-> Absent]

cleanCommentObject(obj) == [obj EXCEPT !.id = Absent]

\* ------------------------------------------------------------- the pool
NoWrites ==
  [comments |-> NoRows, logs |-> NoRows, tokens |-> NoRows, strings |-> NoRows,
   texts |-> NoRows, tags |-> NoRows, issues |-> NoRows, users |-> NoRows,
   settings |-> NoRows]

St == [db |-> db, ov |-> ov, txn |-> txn, serial |-> serial, pool |-> pool, held |-> held]
Store(S) ==
  /\ db' = S.db /\ ov' = S.ov /\ txn' = S.txn
  /\ serial' = S.serial /\ pool' = S.pool /\ held' = S.held

isFull(S) == Cardinality(S.pool.clients) >= PoolMax

\* pool.connect(): the last released idle client, else a new client, else wait in the queue
connect(S, p) ==
  IF S.pool.idle # <<>>
  THEN [S EXCEPT !.held[p] = Last(S.pool.idle), !.pool.idle = Front(@)]
  ELSE IF ~isFull(S)
       THEN LET c == Min(Clients \ S.pool.clients)
            IN [S EXCEPT !.held[p] = c, !.pool.clients = @ \cup {c}]
       ELSE [S EXCEPT !.pool.pending = Append(@, p)]

pulseQueue(S) ==
  IF S.pool.pending = <<>> \/ (S.pool.idle = <<>> /\ isFull(S))
  THEN S
  ELSE connect([S EXCEPT !.pool.pending = Tail(@)], Head(S.pool.pending))

\* variant: the finally block is missing, the client is never given back
release_absent(S, p, err) == S
\* client.release(err): a client released with an error is removed from the pool and its
\* connection closed (the server rolls its open transaction back); otherwise it becomes
\* idle. Either way the longest-waiting caller is served.
release(S, p, err) ==
  LET c == S.held[p]
      S1 == [S EXCEPT !.held[p] = 0]
  IN IF err
     THEN pulseQueue([S1 EXCEPT !.pool.clients = @ \ {c}, !.txn[c] = "none",
                                 !.ov[c] = NoWrites])
     ELSE pulseQueue([S1 EXCEPT !.pool.idle = Append(@, c)])

\* --------------------------------------------------------- the database
\* READ COMMITTED: a session sees the committed rows and its own transaction's writes
View(S, c, t) == Merge(S.db[t], S.ov[c][t])

\* variant: the transaction is never opened (every statement commits at once)
sqlBegin_absent(S, c) == S
sqlBegin(S, c) == IF S.txn[c] = "none" THEN [S EXCEPT !.txn[c] = "open"] ELSE S
sqlCommit(S, c) ==
  IF S.txn[c] = "open"
  THEN [S EXCEPT !.db = [t \in DOMAIN S.db |-> Merge(S.db[t], S.ov[c][t])],
                 !.ov[c] = NoWrites, !.txn[c] = "none"]
  ELSE [S EXCEPT !.ov[c] = NoWrites, !.txn[c] = "none"]
sqlRollback(S, c) == [S EXCEPT !.ov[c] = NoWrites, !.txn[c] = "none"]
\* a statement that raises an error inside a transaction aborts it
sqlError(S, c) == IF S.txn[c] = "open" THEN [S EXCEPT !.txn[c] = "aborted"] ELSE S
\* a row write: into the open transaction, or committed at once (autocommit)
sqlWrite(S, c, t, id, row) ==
  IF S.txn[c] = "open"
  THEN [S EXCEPT !.ov[c][t] = Put(@, id, row)]
  ELSE [S EXCEPT !.db[t] = Put(@, id, row)]
nextval(S, t) == [S EXCEPT !.serial[t] = @ + 1]
\* a committed row another session's unfinished transaction has written is locked
Locked(S, c, t, id) ==
  \E c2 \in Clients \ {c} :
    S.txn[c2] # "none" /\ id \in DOMAIN S.ov[c2][t] /\ id \in DOMAIN S.db[t]


\* ------------------------------------------------- Logs.vue: compareRecords
\* !x for a string property: undefined or the empty string
falsy(prop) == prop = Absent \/ prop[1] = <<>>
\* data0.tags.concat(data1.tags): concat of undefined appends one undefined element (0 here;
\* tag ids are positive)
concat(t0, prop) == IF prop = Absent THEN Append(t0, 0) ELSE t0 \o prop[1]
\* data.entry?.[x]
entryOf(obj, x) ==
  IF obj.entry = Absent \/ x \notin DOMAIN obj.entry[1] THEN Absent ELSE Some(obj.entry[1][x])
RECURSIVE schemeFields(_, _, _)
schemeFields(keys, data0, data1) ==
  IF keys = <<>> THEN <<>>
  ELSE (IF entryOf(data0, Head(keys)) # entryOf(data1, Head(keys))
        THEN <<Head(keys)>> ELSE <<>>) \o schemeFields(Tail(keys), data0, data1)
\* The labels compareRecords renders: [created |-> TRUE] for the CREATED button, else the
\* list of changed fields. keys is Object.keys(scheme).
compareRecords(data0, data1, keys) ==
  IF falsy(data0.title)
  THEN [created |-> TRUE, fields |-> <<>>]
  ELSE [created |-> FALSE,
        fields |->
             (IF data0.title # data1.title THEN <<"title">> ELSE <<>>)
          \o (IF data0.priority # data1.priority THEN <<"priority">> ELSE <<>>)
          \o (IF data0.published # data1.published THEN <<"published">> ELSE <<>>)
          \o (IF Len(data0.tags[1]) # Cardinality(Range(concat(data0.tags[1], data1.tags)))
              THEN <<"tags">> ELSE <<>>)
          \o (IF data0.issues # data1.issues THEN <<"issues">> ELSE <<>>)
          \o schemeFields(keys, data0, data1)]

\* ------------------------------------------------------ User.vue: setComment
Entry0 == [k \in {"f1"} |-> "x"]
SchemeKeys == <<"f1">>
CommentParams(id, text, title, published, tags) ==
  [id |-> id, text_id |-> text, title |-> title, published |-> published,
   priority |-> Some(1), tags |-> Some(tags), issues |-> Some(<< >>), entry |-> Some(Entry0)]
\* the params a caller may submit
ParamChoices ==
  { CommentParams(Absent, Some(1), Some(<<" ", "a">>), Absent, <<1>>),
    CommentParams(Absent, Some(1), Some(<<" ">>), Some("false"), <<>>),
    CommentParams(Absent, Absent, Some(<<"a">>), Some("true"), <<1>>),
    CommentParams(Absent, Some(1), Absent, Some("true"), <<1>>),
    CommentParams(Some(1), Some(1), Some(<<" ", "a">>), Absent, <<1>>),
    CommentParams(Some(1), Some(1), Some(<<"b">>), Some("true"), <<1, 2>>) }

\* `{${params?.tags?.length ? params.tags.join(',') : ''}}` as PostgreSQL reads it back
tagsAsArray(params) == IF params.tags = Absent THEN <<>> ELSE params.tags[1]
issuesAsArray(params) == IF params.issues = Absent THEN <<>> ELSE params.issues[1]
\* node-postgres sends undefined as NULL
orNull(prop) == IF prop = Absent THEN Some("null") ELSE prop
\* the row the INSERT / UPDATE stores from `values` (writers: history of the callers whose
\* write the row carries)
values(params, writers) ==
  [text_id |-> params.text_id, title |-> Some(trim(params.title[1])),
   published |-> orNull(params.published), entry |-> params.entry,
   priority |-> params.priority, tags |-> Some(tagsAsArray(params)),
   issues |-> Some(issuesAsArray(params)), writers |-> writers]
\* variant: SELECT id FROM comments WHERE id = $1
selectComment_idOnly(id, row) == [EmptyObject EXCEPT !.id = Some(id)]
\* SELECT * FROM comments WHERE id = $1
selectComment(id, row) ==
  [id |-> Some(id), text_id |-> row.text_id, title |-> row.title,
   published |-> row.published, priority |-> row.priority, tags |-> row.tags,
   issues |-> row.issues, entry |-> row.entry]

NoResult == [kind |-> "none", id |-> 0, change |-> 0]
\* the environment may let a statement fail (connection or storage error)
Outcome(ok) == (ok \/ faults < MaxFaults) /\ faults' = faults + (IF ok THEN 0 ELSE 1)
Finish(p, ret) == cpc' = [cpc EXCEPT ![p] = "done"] /\ cret' = [cret EXCEPT ![p] = ret]
Error == [kind |-> "error", id |-> 0, change |-> 0]

setComment_call(p) ==
  /\ cpc[p] = "idle"
  /\ \A q \in Earlier[p] : cpc[q] # "idle"
  /\ \E params \in ParamChoices :
       /\ cparams' = [cparams EXCEPT ![p] = params]
       /\ IF params.title = Absent
          THEN \* params.title.trim() throws: the call rejects
               /\ Finish(p, [kind |-> "rejected", id |-> 0, change |-> 0])
               /\ UNCHANGED <<dbVars, cprev, cdata, overwritten>>
          ELSE /\ cpc' = [cpc EXCEPT ![p] = IF params.id # Absent THEN "select" ELSE "begin"]
               /\ Store(connect(St, p))
               /\ UNCHANGED <<faults, cprev, cdata, cret, overwritten>>
  /\ UNCHANGED iVars

\* SELECT * FROM comments WHERE id = $1; an error, also the TypeError of
\* cleanCommentObject(undefined), is caught by the outer catch and data = {} is returned
setComment_select(p) ==
  /\ cpc[p] = "select" /\ held[p] # 0
  /\ \E ok \in BOOLEAN :
       /\ Outcome(ok)
       /\ LET c == held[p]
              id == cparams[p].id[1]
              rows == View(St, c, "comments")
              S1 == release(St, p, ~ok)
          IN IF ok /\ id \in DOMAIN rows
             THEN /\ cprev' = [cprev EXCEPT ![p] = cleanCommentObject(selectComment(id, rows[id]))]
                  /\ cpc' = [cpc EXCEPT ![p] = "begin"]
                  /\ Store(connect(S1, p))
                  /\ UNCHANGED cret
             ELSE /\ Finish(p, [kind |-> "empty", id |-> 0, change |-> 0])
                  /\ Store(S1)
                  /\ UNCHANGED cprev
  /\ UNCHANGED <<cparams, cdata, overwritten, iVars>>

setComment_begin(p) ==
  /\ cpc[p] = "begin" /\ held[p] # 0
  /\ \E ok \in BOOLEAN :
       /\ Outcome(ok)
       /\ IF ok
          THEN /\ cpc' = [cpc EXCEPT ![p] = "write"]
               /\ Store(connect(release(sqlBegin(St, held[p]), p, FALSE), p))
               /\ UNCHANGED cret
          ELSE /\ Finish(p, Error)
               /\ Store(release(St, p, TRUE))
  /\ UNCHANGED <<cparams, cprev, cdata, overwritten, iVars>>

\* the INSERT / UPDATE ... RETURNING id, then data = result.rows[0], resultId = data.id
setComment_write(p) ==
  /\ cpc[p] = "write" /\ held[p] # 0
  /\ \E ok \in BOOLEAN :
       /\ Outcome(ok)
       /\ LET c == held[p]
              params == cparams[p]
              rows == View(St, c, "comments")
              isUpdate == params.id # Absent
              id == IF isUpdate THEN params.id[1] ELSE St.serial.comments
              \* Number(undefined) is NaN, which the integer column refuses
              fails == ~ok \/ params.text_id = Absent
              found == id \in DOMAIN rows
              writers == IF isUpdate /\ found THEN rows[id].writers \cup {p} ELSE {p}
              S1 == IF isUpdate THEN sqlWrite(St, c, "comments", id, values(params, writers))
                    ELSE nextval(sqlWrite(St, c, "comments", id, values(params, writers)), "comments")
          IN /\ (~fails /\ isUpdate) => ~Locked(St, c, "comments", id)
             /\ IF fails \/ (isUpdate /\ ~found)
                THEN \* the query's error, or the TypeError of data.id on no row
                     /\ cpc' = [cpc EXCEPT ![p] = "rollback"]
                     /\ Store(connect(release(St, p, fails), p))
                     /\ UNCHANGED <<cdata, overwritten>>
                ELSE /\ cpc' = [cpc EXCEPT ![p] = "log"]
                     /\ cdata' = [cdata EXCEPT ![p] = [kind |-> "data", id |-> id, change |-> 0]]
                     /\ overwritten' = [overwritten EXCEPT ![p] =
                           IF isUpdate THEN selectComment(id, rows[id]) ELSE EmptyObject]
                     /\ Store(connect(release(S1, p, FALSE), p))
  /\ UNCHANGED <<cparams, cprev, cret, iVars>>

\* INSERT INTO logs (user_id, table_name, record_id, data0, data1)
setComment_log(p) ==
  /\ cpc[p] = "log" /\ held[p] # 0
  /\ \E ok \in BOOLEAN :
       /\ Outcome(ok)
       /\ LET c == held[p]
              id == St.serial.logs
              newCommentObject == cleanCommentObject(cparams[p])
              row == [user_id |-> p, table_name |-> "comments", record_id |-> cdata[p].id,
                      data0 |-> cprev[p], data1 |-> newCommentObject]
          IN IF ok
             THEN /\ cpc' = [cpc EXCEPT ![p] = "commit"]
                  /\ cdata' = [cdata EXCEPT ![p].change = id]
                  /\ Store(connect(release(nextval(sqlWrite(St, c, "logs", id, row), "logs"),
                                           p, FALSE), p))
             ELSE /\ cpc' = [cpc EXCEPT ![p] = "rollback"]
                  /\ Store(connect(release(St, p, TRUE), p))
                  /\ UNCHANGED cdata
  /\ UNCHANGED <<cparams, cprev, cret, overwritten, iVars>>

setComment_commit(p) ==
  /\ cpc[p] = "commit" /\ held[p] # 0
  /\ \E ok \in BOOLEAN :
       /\ Outcome(ok)
       /\ IF ok
          THEN /\ Finish(p, cdata[p])
               /\ Store(release(sqlCommit(St, held[p]), p, FALSE))
          ELSE /\ cpc' = [cpc EXCEPT ![p] = "rollback"]
               /\ Store(connect(release(St, p, TRUE), p))
               /\ UNCHANGED cret
  /\ UNCHANGED <<cparams, cprev, cdata, overwritten, iVars>>

\* await pool.query('ROLLBACK'); return { error } - and { error } too when it throws
setComment_rollback(p) ==
  /\ cpc[p] = "rollback" /\ held[p] # 0
  /\ \E ok \in BOOLEAN :
       /\ Outcome(ok)
       /\ Finish(p, Error)
       /\ Store(IF ok THEN release(sqlRollback(St, held[p]), p, FALSE)
                ELSE release(St, p, TRUE))
  /\ UNCHANGED <<cparams, cprev, cdata, overwritten, iVars>>

setComment(p) ==
  \/ setComment_call(p)
  \/ setComment_select(p)
  \/ setComment_begin(p)
  \/ setComment_write(p)
  \/ setComment_log(p)
  \/ setComment_commit(p)
  \/ setComment_rollback(p)

\* ------------------------------------------- User.vue: insertBatchIntoStrings
Items == {[repr |-> "cat", meta |-> "word"], [repr |-> "cat", meta |-> "punct"],
          [repr |-> "dog", meta |-> "word"]}
Langs == {"en", "be"}
\* the text an ingestion loads: each caller loads its own
TextOf == [i1 |-> 1, i2 |-> 2]

\* rows of tokens a session sees for (token, lang)
tokenIds(rows, token, lang) ==
  {id \in DOMAIN rows : rows[id].token = token /\ rows[id].lang = lang}
\* variant: no unique index, the inserter only looks at the rows it sees
tokenHolders_none(S, c, token, lang) == {}
\* sessions whose unfinished transaction holds an uncommitted row for (token, lang): the
\* unique index makes an inserter of the same key wait for them
tokenHolders(S, c, token, lang) ==
  {c2 \in Clients \ {c} :
     S.txn[c2] # "none" /\ tokenIds(S.ov[c2].tokens, token, lang) # {}}
\* variant: ON CONFLICT (token, lang) DO UPDATE SET meta = EXCLUDED.meta
insertToken_overwrites(S, c, id, token, lang, meta) ==
  LET seen == {t \in DOMAIN View(S, c, "tokens") :
                 View(S, c, "tokens")[t].token = token /\ View(S, c, "tokens")[t].lang = lang}
      rows == [t \in (IF seen = {} THEN {id} ELSE seen)
                 |-> [token |-> token, lang |-> lang, meta |-> meta]]
  IN [S EXCEPT !.ov[c].tokens = IF S.txn[c] = "open" THEN Merge(@, rows) ELSE @,
               !.db.tokens = IF S.txn[c] = "open" THEN @ ELSE Merge(@, rows)]
\* INSERT INTO tokens (token, lang, meta) ... ON CONFLICT (token, lang) DO NOTHING
\* The SERIAL ids of tokens and strings are opaque unique values: the value a statement
\* draws is named by the statement that draws it, <<text loaded, item index>>.
insertToken(S, c, id, token, lang, meta) ==
  IF tokenIds(View(S, c, "tokens"), token, lang) # {}
  THEN S
  ELSE sqlWrite(S, c, "tokens", id, [token |-> token, lang |-> lang, meta |-> meta])
\* INSERT INTO strings (text_id, p, s, form, repr): token_id is left NULL, comments gets its
\* default '{}' (item.p is the item's position in the text, here its position in the batch)
NULL == << >>
insertString(S, c, id, textId, i, item) ==
  sqlWrite(S, c, "strings", id,
           [text_id |-> textId, p |-> i, repr |-> item.repr, token_id |-> NULL,
            comments |-> <<>>])
\* UPDATE strings SET token_id = tokens.id FROM tokens
\*   WHERE tokens.lang = $1 AND tokens.token = strings.repr
backfillTargets(S, c, lang) ==
  {id \in DOMAIN View(S, c, "strings") :
     tokenIds(View(S, c, "tokens"), View(S, c, "strings")[id].repr, lang) # {}}
\* variant: the join forgets tokens.lang = $1
backfillToken_anyLang(S, c, lang, id) ==
  CHOOSE t \in DOMAIN View(S, c, "tokens") :
    View(S, c, "tokens")[t].token = View(S, c, "strings")[id].repr
backfillToken(S, c, lang, id) ==
  CHOOSE t \in tokenIds(View(S, c, "tokens"), View(S, c, "strings")[id].repr, lang) : TRUE
backfill(S, c, lang) ==
  LET targets == backfillTargets(S, c, lang)
      updated == [id \in targets |->
                    [View(S, c, "strings")[id] EXCEPT !.token_id = <<backfillToken(S, c, lang, id)>>]]
  IN IF S.txn[c] = "open"
     THEN [S EXCEPT !.ov[c].strings = Merge(@, updated)]
     ELSE [S EXCEPT !.db.strings = Merge(@, updated)]
backfillHolders(S, c, lang) ==
  {c2 \in Clients \ {c} : \E id \in backfillTargets(S, c, lang) :
     S.txn[c2] # "none" /\ id \in DOMAIN S.ov[c2].strings}

\* the sessions the statement an ingestion waits for is blocked by
waitsFor(p) ==
  IF held[p] = 0 THEN {}
  ELSE IF ipc[p] = "token"
       THEN tokenHolders(St, held[p], iarg[p].batch[idx[p]].repr, iarg[p].langId)
       ELSE IF ipc[p] = "backfill" THEN backfillHolders(St, held[p], iarg[p].langId)
            ELSE {}
\* PostgreSQL ends a cycle of waiting sessions by failing one of their statements
deadlocked(p) ==
  \E q \in IProcs \ {p} : held[q] \in waitsFor(p) /\ held[p] \in waitsFor(q)
\* a statement completes once nothing blocks it; it fails by the environment or in a deadlock
Completes(p, ok) ==
  /\ ok => waitsFor(p) = {}
  /\ ~ok => (deadlocked(p) \/ faults < MaxFaults)
  /\ faults' = faults + (IF ok \/ deadlocked(p) THEN 0 ELSE 1)
Caught(p, S) ==
  /\ ierr' = [ierr EXCEPT ![p] = ipc[p]]
  /\ ipc' = [ipc EXCEPT ![p] = "rollback"]
  /\ Store(sqlError(S, held[p]))
  /\ UNCHANGED <<idx, iret, irel>>

\* const client = await pool.connect()
insertBatch_call(p) ==
  /\ ipc[p] = "idle"
  /\ \A q \in Earlier[p] : ipc[q] # "idle"
  /\ \E length \in 0..MaxBatch, langId \in (IF p = "i1" THEN {"en"} ELSE Langs) :
       iarg' = [iarg EXCEPT ![p] = [textId |-> TextOf[p], batch |-> <<>>, length |-> length,
                                    langId |-> langId]]
  /\ ipc' = [ipc EXCEPT ![p] = "begin"]
  /\ Store(connect(St, p))
  /\ UNCHANGED <<faults, idx, ierr, iret, irel, cVars>>

\* await client.query('BEGIN')
insertBatch_begin(p) ==
  /\ ipc[p] = "begin" /\ held[p] # 0
  /\ \E ok \in BOOLEAN :
       /\ Completes(p, ok)
       /\ IF ok
          THEN /\ IF iarg[p].length = 0
                  THEN ipc' = [ipc EXCEPT ![p] = "backfill"] /\ UNCHANGED <<idx, iarg>>
                  ELSE /\ ipc' = [ipc EXCEPT ![p] = "token"]
                       /\ idx' = [idx EXCEPT ![p] = 1]
                       /\ \E item \in Items : iarg' = [iarg EXCEPT ![p].batch = <<item>>]
               /\ Store(sqlBegin(St, held[p]))
               /\ UNCHANGED <<ierr, iret, irel>>
          ELSE Caught(p, St) /\ UNCHANGED iarg
  /\ UNCHANGED cVars

\* the loop body's first statement, for item i
insertBatch_token(p) ==
  /\ ipc[p] = "token" /\ held[p] # 0
  /\ \E ok \in BOOLEAN :
       /\ Completes(p, ok)
       /\ IF ok
          THEN /\ ipc' = [ipc EXCEPT ![p] = "string"]
               /\ Store(insertToken(St, held[p], <<iarg[p].textId, idx[p]>>,
                                    iarg[p].batch[idx[p]].repr, iarg[p].langId,
                                    iarg[p].batch[idx[p]].meta))
               /\ UNCHANGED <<idx, ierr, iret, irel>>
          ELSE Caught(p, St)
  /\ UNCHANGED <<iarg, cVars>>

\* the loop body's second statement, then the next item or the statement after the loop
insertBatch_string(p) ==
  /\ ipc[p] = "string" /\ held[p] # 0
  /\ \E ok \in BOOLEAN :
       /\ Completes(p, ok)
       /\ IF ok
          THEN /\ IF idx[p] < iarg[p].length
                  THEN /\ ipc' = [ipc EXCEPT ![p] = "token"]
                       /\ idx' = [idx EXCEPT ![p] = @ + 1]
                       /\ \E item \in Items :
                            iarg' = [iarg EXCEPT ![p].batch = Append(@, item)]
                  ELSE ipc' = [ipc EXCEPT ![p] = "backfill"] /\ UNCHANGED <<idx, iarg>>
               /\ Store(insertString(St, held[p], <<iarg[p].textId, idx[p]>>, iarg[p].textId,
                                     idx[p], iarg[p].batch[idx[p]]))
               /\ UNCHANGED <<ierr, iret, irel>>
          ELSE Caught(p, St) /\ UNCHANGED iarg
  /\ UNCHANGED cVars

insertBatch_backfill(p) ==
  /\ ipc[p] = "backfill" /\ held[p] # 0
  /\ \E ok \in BOOLEAN :
       /\ Completes(p, ok)
       /\ IF ok
          THEN /\ ipc' = [ipc EXCEPT ![p] = "commit"]
               /\ Store(backfill(St, held[p], iarg[p].langId))
               /\ UNCHANGED <<idx, ierr, iret, irel>>
          ELSE Caught(p, St)
  /\ UNCHANGED <<iarg, cVars>>

\* await client.query('COMMIT'); finally client.release(); return secs
insertBatch_commit(p) ==
  /\ ipc[p] = "commit" /\ held[p] # 0
  /\ \E ok \in BOOLEAN :
       /\ Completes(p, ok)
       /\ IF ok
          THEN /\ ipc' = [ipc EXCEPT ![p] = "done"]
               /\ iret' = [iret EXCEPT ![p] = "secs"]
               /\ Store(release(sqlCommit(St, held[p]), p, FALSE))
               /\ irel' = [irel EXCEPT ![p] = @ + 1]
               /\ UNCHANGED <<idx, ierr>>
          ELSE Caught(p, St)
  /\ UNCHANGED <<iarg, cVars>>

\* catch: await client.query('ROLLBACK'); isError = true; finally client.release();
\* return undefined. A ROLLBACK that throws (the connection is lost, the server drops the
\* transaction) leaves the catch block: the call rejects after the finally block.
insertBatch_rollback(p) ==
  /\ ipc[p] = "rollback" /\ held[p] # 0
  /\ \E ok \in BOOLEAN :
       /\ Completes(p, ok)
       /\ ipc' = [ipc EXCEPT ![p] = "done"]
       /\ iret' = [iret EXCEPT ![p] = IF ok THEN "undefined" ELSE "rejected"]
       /\ Store(release(sqlRollback(St, held[p]), p, ~ok))
       /\ irel' = [irel EXCEPT ![p] = @ + 1]
  /\ UNCHANGED <<iarg, idx, ierr, cVars>>

insertBatchIntoStrings(p) ==
  \/ insertBatch_call(p)
  \/ insertBatch_begin(p)
  \/ insertBatch_token(p)
  \/ insertBatch_string(p)
  \/ insertBatch_backfill(p)
  \/ insertBatch_commit(p)
  \/ insertBatch_rollback(p)

InitDb ==
  /\ db = NoWrites
  /\ ov = [c \in Clients |-> NoWrites]
  /\ txn = [c \in Clients |-> "none"]
  /\ serial = [comments |-> 1, logs |-> 1, tags |-> 1, issues |-> 1, texts |-> 1]
  /\ pool = [clients |-> {}, idle |-> <<>>, pending |-> <<>>]
  /\ held = [p \in Procs |-> 0]
  /\ faults = 0
InitComments ==
  /\ cpc = [p \in CProcs |-> "idle"]
  /\ cparams = [p \in CProcs |-> EmptyObject]
  /\ cprev = [p \in CProcs |-> EmptyObject]
  /\ cdata = [p \in CProcs |-> NoResult]
  /\ cret = [p \in CProcs |-> NoResult]
  /\ overwritten = [p \in CProcs |-> EmptyObject]
InitIngest ==
  /\ ipc = [p \in IProcs |-> "idle"]
  /\ iarg = [p \in IProcs |-> [textId |-> 0, batch |-> <<>>, length |-> 0, langId |-> ""]]
  /\ idx = [p \in IProcs |-> 0]
  /\ ierr = [p \in IProcs |-> ""]
  /\ iret = [p \in IProcs |-> "none"]
  /\ irel = [p \in IProcs |-> 0]

NoChanges == [id |-> 0, created |-> FALSE, fields |-> <<>>]
\* Logs.vue before it is mounted
InitLogsView ==
  /\ pagination = [page |-> 1, pageSize |-> 10, itemCount |-> 10]
  /\ logs = <<>>
  /\ isLoading = FALSE
  /\ isLoaded = FALSE
  /\ inflight = EmptyBag
  /\ query = [text_id |-> 1, comment |-> Absent]
  /\ scheme = <<>>
  /\ mpc = "start"
  /\ changes = NoChanges

NoUser == [id |-> 0, privs |-> 0, activated |-> FALSE]
NoOp == [n |-> 0, name |-> "", user |-> NoUser, target |-> "", status |-> FALSE, ret |-> "none"]
\* no request served, the user form not opened
InitAccess ==
  /\ op = NoOp
  /\ userForm = [store |-> NoUser, id |-> "", user |-> NoUser, isLoaded |-> FALSE]

\* no call served; the cache before getSettings has answered; no call in progress
NoCall == [f \in {"getStats", "deleteById", "updateSettings", "createUser"} |-> [pc |-> "idle"]]
NoSettings == << >>
NoStringCall == [pc |-> "idle", id |-> 0, tokens |-> {}, data |-> <<>>, calls |-> 0]
NoDelete ==
  [pc |-> "idle", table |-> "", id |-> 0, comments |-> 0, success |-> FALSE, ui |-> FALSE]
\* no call of the other store functions in progress, no other view opened
InitExtra ==
  /\ del = NoDelete
  /\ tagsView = [tags |-> <<>>, isLoaded |-> FALSE]
  /\ out = NoCall
  /\ settings = NoSettings
  /\ spc = [p \in SProcs |-> NoStringCall]

\* concurrent setComment calls
InitC == InitDb /\ InitComments /\ InitIngest /\ InitLogsView /\ InitAccess /\ InitExtra
NextC ==
  (\E p \in CProcs : setComment(p)) /\ UNCHANGED lVars /\ UNCHANGED aVars /\ UNCHANGED xVars /\ UNCHANGED yVars
SpecC == InitC /\ [][NextC]_vars

\* ------------------------------------------------------ claims: setComment
\* every log row, committed or written by an unfinished transaction
AllLogs ==
  {db.logs[k] : k \in DOMAIN db.logs}
    \cup UNION {{ov[c].logs[k] : k \in DOMAIN ov[c].logs} : c \in Clients}
LogsOf(id) == {k \in DOMAIN db.logs : db.logs[k].record_id = id}
WritersOf(id) == IF id \in DOMAIN db.comments THEN db.comments[id].writers ELSE {}

\* C1: in every state each committed comment write has exactly one committed log row
\* (table_name 'comments', record_id = the comment id) and each such log row has its
\* committed comment write.
C1_CommentWritesPairedWithLogs ==
  \A id \in DOMAIN db.comments \cup {db.logs[k].record_id : k \in DOMAIN db.logs} :
    /\ \A k \in LogsOf(id) : db.logs[k].table_name = "comments"
    /\ {db.logs[k].user_id : k \in LogsOf(id)} = WritersOf(id)
    /\ Cardinality(LogsOf(id)) = Cardinality(WritersOf(id))

\* C2: the data0 of the log row of an update is the row image that update's write replaced.
C2_BeforeSnapshotIsReplacedRow ==
  \A l \in AllLogs :
    cparams[l.user_id].id # Absent => l.data0 = cleanCommentObject(overwritten[l.user_id])

\* C3: a log row has data0 = {} exactly when its call created the comment (no params.id).
C3_EmptyBeforeIffCreation ==
  \A l \in AllLogs : (l.data0 = EmptyObject) <=> (cparams[l.user_id].id = Absent)
C3_Witness ==
  /\ \E k \in DOMAIN db.logs : db.logs[k].data0 = EmptyObject
  /\ \E k \in DOMAIN db.logs :
       /\ cparams[db.logs[k].user_id].id # Absent
       /\ db.logs[k].data0.title = Some(<<"a">>)

\* C4: an update that submits the values of the preceding successful call of the same
\* comment has a log row whose compareRecords diff is empty.
C4_ResubmittedValuesGiveEmptyDiff ==
  \A k1, k2 \in DOMAIN db.logs :
    ( /\ k1 < k2
      /\ db.logs[k1].record_id = db.logs[k2].record_id
      /\ \A k \in LogsOf(db.logs[k1].record_id) : ~(k1 < k /\ k < k2)
      /\ db.logs[k2].data1 = db.logs[k1].data1 )
    => compareRecords(db.logs[k2].data0, db.logs[k2].data1, SchemeKeys)
         = [created |-> FALSE, fields |-> <<>>]

\* C5: a call whose title is empty after trimming, or whose text_id is missing, opens no
\* transaction, writes nothing and ends with an error.
Invalid(params) ==
  \/ params.title = Absent \/ trim(params.title[1]) = <<>>
  \/ params.text_id = Absent
C5_InvalidParamsRejectedEarly ==
  \A p \in CProcs :
    (cpc[p] # "idle" /\ Invalid(cparams[p])) =>
      /\ cpc[p] \in {"select", "done"}
      /\ cpc[p] = "done" => cret[p].kind \in {"error", "rejected"}
      /\ \A id \in DOMAIN db.comments : p \notin db.comments[id].writers
      /\ \A l \in AllLogs : l.user_id # p

\* C6: a call that did not commit both its comment write and its log row returns an error.
CommittedBoth(p) ==
  /\ \E id \in DOMAIN db.comments : p \in db.comments[id].writers
  /\ \E k \in DOMAIN db.logs : db.logs[k].user_id = p
C6_FailureIsSignalled ==
  \A p \in CProcs :
    (cpc[p] = "done" /\ ~CommittedBoth(p)) => cret[p].kind \in {"error", "rejected"}

\* concurrent ingestions; the pool is empty, or holds an idle client whose session is inside
\* a transaction that a setComment BEGIN opened and no COMMIT or ROLLBACK reached
InitPool(dangling) ==
  /\ db = NoWrites
  /\ ov = [c \in Clients |-> NoWrites]
  /\ txn = [c \in Clients |-> IF dangling /\ c = 1 THEN "open" ELSE "none"]
  /\ serial = [comments |-> 1, logs |-> 1, tags |-> 1, issues |-> 1, texts |-> 1]
  /\ pool = [clients |-> IF dangling THEN {1} ELSE {},
             idle |-> IF dangling THEN <<1>> ELSE <<>>, pending |-> <<>>]
  /\ held = [p \in Procs |-> 0]
  /\ faults = 0
InitI ==
  /\ (\E dangling \in BOOLEAN : InitPool(dangling))
  /\ InitComments /\ InitIngest /\ InitLogsView /\ InitAccess /\ InitExtra
\* a step of an ingestion, the rest of the state left alone
IngestStep(p) ==
  insertBatchIntoStrings(p) /\ UNCHANGED lVars /\ UNCHANGED aVars /\ UNCHANGED xVars /\ UNCHANGED yVars
NextI == \E p \in IProcs : IngestStep(p)
SpecI == InitI /\ [][NextI]_vars

\* ------------------------------------------ claims: insertBatchIntoStrings
succeeds(p) == ipc[p] = "commit" /\ iret'[p] = "secs"
firstMeta(batch, repr) == batch[Min({i \in DOMAIN batch : batch[i].repr = repr})].meta

\* C7: the committed tokens and strings change only in the step in which an ingestion's
\* COMMIT succeeds, and a call in which a statement failed returns no elapsed time.
C7_IngestionAllOrNothing ==
  [][ /\ (db.tokens' # db.tokens \/ db.strings' # db.strings)
            => \E p \in IProcs : succeeds(p)
      /\ \A p \in IProcs : ierr'[p] # "" => iret'[p] # "secs" ]_vars
C7_Witness ==
  \E p \in IProcs :
    /\ ipc[p] = "done" /\ iret[p] = "undefined"
    /\ ierr[p] = "string" /\ idx[p] = iarg[p].length /\ idx[p] > 1
    /\ db.strings = NoRows

\* C8: a committed token row never changes, and a successful ingestion leaves exactly one
\* row for each of its (surface form, language) pairs; a row it added has the metadata of
\* the form's first occurrence in the batch.
C8_FirstTokenMetadataKept ==
  [][ /\ \A id \in DOMAIN db.tokens :
           id \in DOMAIN db.tokens' /\ db.tokens'[id] = db.tokens[id]
      /\ \A p \in IProcs : succeeds(p) =>
           \A i \in DOMAIN iarg[p].batch :
             LET ids == tokenIds(db.tokens', iarg[p].batch[i].repr, iarg[p].langId)
             IN /\ Cardinality(ids) = 1
                /\ \A id \in ids \ DOMAIN db.tokens :
                     db.tokens'[id].meta = firstMeta(iarg[p].batch, iarg[p].batch[i].repr)
    ]_vars
C8_Witness ==
  /\ iret["i1"] = "secs" /\ iret["i2"] = "secs" /\ iarg["i2"].langId = "en"
  /\ iarg["i1"].batch = <<[repr |-> "cat", meta |-> "word"], [repr |-> "cat", meta |-> "punct"]>>
  /\ Len(iarg["i2"].batch) > 0 /\ iarg["i2"].batch[1] = [repr |-> "cat", meta |-> "punct"]
  /\ \E id \in DOMAIN db.tokens :
       db.tokens[id] = [token |-> "cat", lang |-> "en", meta |-> "word"]

\* C9: in every state no two token rows, committed or not, have the same (token, lang).
AllTokenIds == DOMAIN db.tokens \cup UNION {DOMAIN ov[c].tokens : c \in Clients}
tokenRow(id) ==
  IF id \in DOMAIN db.tokens THEN db.tokens[id]
  ELSE ov[CHOOSE c \in Clients : id \in DOMAIN ov[c].tokens].tokens[id]
C9_OneTokenPerFormAndLanguage ==
  \A id1, id2 \in AllTokenIds :
    (tokenRow(id1).token = tokenRow(id2).token /\ tokenRow(id1).lang = tokenRow(id2).lang)
      => id1 = id2
C9_Witness ==
  /\ iarg["i1"].langId = iarg["i2"].langId
  /\ ipc["i2"] = "token" /\ held["i1"] \in waitsFor("i2")
  /\ ipc["i1"] \in {"string", "token", "backfill", "commit"}

\* C10: when an ingestion's COMMIT succeeds its text has one StringRow per batch item, each
\* linked to the one token row of (its surface form, the language); until the backfill
\* statement has run the rows it inserted have no token_id.
C10_StringsLinkedAfterBackfill ==
  /\ [](\A p \in IProcs : ipc[p] \in {"token", "string", "backfill"} =>
          \A id \in DOMAIN ov[held[p]].strings :
            ov[held[p]].strings[id].text_id = iarg[p].textId
              => ov[held[p]].strings[id].token_id = NULL)
  /\ [][\A p \in IProcs : succeeds(p) =>
          LET rows == {id \in DOMAIN db.strings' : db.strings'[id].text_id = iarg[p].textId}
          IN /\ Cardinality(rows) = Len(iarg[p].batch)
             /\ \A i \in DOMAIN iarg[p].batch : \E id \in rows :
                  /\ db.strings'[id].p = i
                  /\ db.strings'[id].repr = iarg[p].batch[i].repr
                  /\ \E t \in DOMAIN db.tokens' :
                       /\ tokenIds(db.tokens', iarg[p].batch[i].repr, iarg[p].langId) = {t}
                       /\ db.strings'[id].token_id = <<t>>
       ]_vars
C10_Witness ==
  \E p \in IProcs :
    /\ iret[p] = "secs" /\ Len(iarg[p].batch) = 2
    /\ iarg[p].batch[1].repr = "cat" /\ iarg[p].batch[2].repr = "cat"
    /\ \E id1, id2 \in DOMAIN db.strings : \E t \in DOMAIN db.tokens :
         /\ id1 # id2
         /\ db.strings[id1].text_id = iarg[p].textId /\ db.strings[id1].token_id = <<t>>
         /\ db.strings[id2].text_id = iarg[p].textId /\ db.strings[id2].token_id = <<t>>

\* ------------------------------------ claims: the connection of an ingestion
\* every query a caller awaits completes or fails: the server answers, and ends a deadlock
\* by failing a statement
SpecIFair ==
  SpecI /\ \A p \in IProcs :
            WF_vars(IngestStep(p))
\* the clients checked out of the pool
CheckedOut == pool.clients \ Range(pool.idle)

\* C11: an ingestion that holds a client eventually ends, on every exit path, having called
\* client.release() exactly once; it never releases before it ends, and the clients checked
\* out of the pool are always exactly those held by the calls still running.
C11_ConnectionReleasedOnce ==
  /\ [](\A p \in IProcs :
          /\ irel[p] = (IF ipc[p] = "done" THEN 1 ELSE 0)
          /\ (ipc[p] = "done" => held[p] = 0)
          /\ (ipc[p] \notin {"idle", "done"} => held[p] \in CheckedOut))
  /\ [](CheckedOut = {held[p] : p \in IProcs} \ {0})
  /\ \A p \in IProcs : (held[p] # 0) ~> (ipc[p] = "done" /\ irel[p] = 1)
\* the ROLLBACK itself failed, and the client is back
C11_Witness ==
  \E p \in IProcs :
    /\ ipc[p] = "done" /\ iret[p] = "rejected" /\ ierr[p] # ""
    /\ irel[p] = 1 /\ held[p] = 0 /\ CheckedOut = {}

\* ------------------------------------------------------- User.vue: getLogs
\* variant: ORDER BY logs.created DESC, logs.id
logsBefore_idAscending(rows, a, b) ==
  \/ rows[a].created > rows[b].created
  \/ rows[a].created = rows[b].created /\ a < b
\* ORDER BY logs.created DESC, logs.id DESC
logsBefore(rows, a, b) ==
  \/ rows[a].created > rows[b].created
  \/ rows[a].created = rows[b].created /\ a > b
\* data->>'text_id' = $3::text
textIdIs(data, id) == data.text_id = Some(id)
\* WHERE ${condition} (data0->>'text_id' = $3::text or data1->>'text_id' = $3::text);
\* condition is `logs.record_id = ${commentId} AND` when commentId is truthy
logsWhere(rows, commentId, id) ==
  {k \in DOMAIN rows :
     /\ commentId # 0 => rows[k].record_id = commentId
     /\ textIdIs(rows[k].data0, id) \/ textIdIs(rows[k].data1, id)}
RECURSIVE orderBy(_, _)
orderBy(rows, ids) ==
  IF ids = {} THEN <<>>
  ELSE LET first == CHOOSE a \in ids : \A b \in ids \ {a} : logsBefore(rows, a, b)
       IN <<first>> \o orderBy(rows, ids \ {first})
\* OFFSET $1 LIMIT $2
offsetLimit(ids, offset, limit) == SubSeq(ids, offset + 1, Min({Len(ids), offset + limit}))
\* logs.*, (CASE WHEN logs.record_id = comments.id THEN True ELSE False END) AS present
\* FROM logs LEFT JOIN comments ON logs.record_id = comments.id
logsRow(tables, k) ==
  [id |-> k, created |-> tables.logs[k].created, record_id |-> tables.logs[k].record_id,
   data0 |-> tables.logs[k].data0, data1 |-> tables.logs[k].data1,
   present |-> tables.logs[k].record_id \in DOMAIN tables.comments]
\* Number(x) || d for an optional number: undefined gives NaN, NaN and 0 are falsy
numberOr(prop, d) == IF prop = Absent \/ prop[1] = 0 THEN d ELSE prop[1]
getLogs(tables, params) ==
  LET offset == numberOr(params.offset, 0)
      limit == numberOr(params.limit, 50)
      id == numberOr(params.id, 1)
      commentId == numberOr(params.comment, 0)
      matching == logsWhere(tables.logs, commentId, id)
      page == offsetLimit(orderBy(tables.logs, matching), offset, limit)
  IN [data |-> [i \in DOMAIN page |-> logsRow(tables, page[i])],
      count |-> Cardinality(matching)]

\* ------------------------------------------------------ Logs.vue: the log view
\* handlePageChange up to its await: the request is sent
handlePageChange_call(page) ==
  /\ BagCardinality(inflight) < MaxInflight
  /\ pagination' = [pagination EXCEPT !.page = page]
  /\ isLoading' = TRUE
  /\ inflight' = inflight (+) SetToBag({
       [params |-> [id |-> Some(query.text_id),
                    offset |-> Some((page - 1) * pagination.pageSize),
                    limit |-> Some(pagination.pageSize), comment |-> query.comment],
        reply |-> Absent]})
  /\ UNCHANGED <<logs, isLoaded, query, scheme, changes>>

\* onBeforeMount: await handlePageChange(1)
onBeforeMount ==
  /\ mpc = "start"
  /\ mpc' = "page"
  /\ handlePageChange_call(1)
  /\ UNCHANGED <<dbVars, cVars, iVars>>

\* the pages the table's pagination offers for itemCount rows
pageCount == IF pagination.itemCount = 0 THEN 1
             ELSE (pagination.itemCount + pagination.pageSize - 1) \div pagination.pageSize
\* @update:page="handlePageChange"
updatePage ==
  /\ isLoaded
  /\ \E page \in 1..pageCount : handlePageChange_call(page)
  /\ UNCHANGED <<dbVars, cVars, iVars, mpc>>

\* the server answers one of the requests
getLogs_reply ==
  /\ \E r \in BagToSet(inflight) :
       /\ r.reply = Absent
       /\ inflight' = (inflight (-) SetToBag({r}))
                         (+) SetToBag({[r EXCEPT !.reply = Some(getLogs(db, r.params))]})
  /\ UNCHANGED <<dbVars, cVars, iVars, pagination, logs, isLoading, isLoaded, query,
                 scheme, mpc, changes>>

\* handlePageChange after its await (replies arrive in any order); the first one is
\* onBeforeMount's, which goes on to fetch the users and the text
handlePageChange_resume ==
  /\ \E r \in BagToSet(inflight) :
       /\ r.reply # Absent
       /\ logs' = r.reply[1].data
       /\ pagination' = [pagination EXCEPT !.itemCount = r.reply[1].count]
       /\ inflight' = inflight (-) SetToBag({r})
  /\ isLoading' = FALSE
  /\ mpc' = IF mpc = "page" THEN "texts" ELSE mpc
  /\ UNCHANGED <<dbVars, cVars, iVars, query, isLoaded, scheme, changes>>

\* Object.assign(scheme, Object.assign({}, ...schemeKV)): a key is inserted where it first
\* occurs
RECURSIVE assignKeys(_, _)
assignKeys(obj, ids) ==
  IF ids = <<>> THEN obj
  ELSE assignKeys(IF Head(ids) \in Range(obj) THEN obj ELSE Append(obj, Head(ids)), Tail(ids))
\* onBeforeMount after the users are fetched (the user names are no part of the model):
\* texts?.shift()?.scheme?.map(...), Object.assign(scheme, ...), isLoaded.value = true
onBeforeMount_texts ==
  /\ mpc = "texts"
  /\ mpc' = "done"
  /\ scheme' = IF query.text_id \in DOMAIN db.texts
               THEN assignKeys(scheme, db.texts[query.text_id].scheme) ELSE scheme
  /\ isLoaded' = TRUE
  /\ UNCHANGED <<dbVars, cVars, iVars, pagination, logs, isLoading, inflight, query, changes>>

\* the rows setComment may have logged: data0 is {} or the row replaced, data1 the params
LogData(text) == [EmptyObject EXCEPT !.text_id = text, !.title = Some(<<"a">>)]
LogRows ==
  {[user_id |-> "c1", table_name |-> "comments", record_id |-> r.record_id,
    created |-> r.created, data0 |-> r.data0, data1 |-> r.data1] :
     r \in {[record_id |-> 1, created |-> 1, data0 |-> EmptyObject, data1 |-> LogData(Some(1))],
            [record_id |-> 1, created |-> 2, data0 |-> LogData(Some(1)), data1 |-> LogData(Some(1))],
            [record_id |-> 2, created |-> 2, data0 |-> LogData(Some(1)), data1 |-> LogData(Some(2))],
            [record_id |-> 3, created |-> 1, data0 |-> EmptyObject, data1 |-> LogData(Some(2))]}}
\* the page sizes explored (Logs.vue sets 10; getLogs takes any limit)
PageSizes == {1, 2}
\* comment 1 is stored, comments 2 and 3 have been deleted
StoredComments ==
  [id \in {1} |-> values(CommentParams(Absent, Some(1), Some(<<"a">>), Absent, <<>>), {"c1"})]
\* a log view opened on a database at rest
InitL ==
  /\ InitComments /\ InitIngest /\ InitAccess /\ InitExtra
  /\ ov = [c \in Clients |-> NoWrites]
  /\ txn = [c \in Clients |-> "none"]
  /\ serial = [comments |-> 1, logs |-> 1, tags |-> 1, issues |-> 1, texts |-> 1]
  /\ pool = [clients |-> {}, idle |-> <<>>, pending |-> <<>>]
  /\ held = [p \in Procs |-> 0]
  /\ faults = 0
  /\ \E n \in 0..MaxLogs : \E rows \in [1..n -> LogRows] :
       db = [NoWrites EXCEPT !.logs = rows, !.comments = StoredComments,
                             !.texts = [id \in {1} |-> [scheme |-> SchemeKeys]]]
  /\ pagination \in [page : {1}, pageSize : PageSizes, itemCount : {10}]
  /\ logs = <<>> /\ isLoading = FALSE /\ isLoaded = FALSE /\ inflight = EmptyBag
  /\ scheme = <<>> /\ mpc = "start" /\ changes = NoChanges
  /\ query \in [text_id : {1}, comment : {Absent, Some(1)}]
NextL ==
  /\ \/ onBeforeMount \/ updatePage \/ getLogs_reply \/ handlePageChange_resume
     \/ onBeforeMount_texts
  /\ UNCHANGED aVars /\ UNCHANGED xVars /\ UNCHANGED yVars
SpecL == InitL /\ [][NextL]_vars

\* ------------------------------------------- Logs.vue: the Changes column
\* the keys that are array indices ("integer-like") and their numbers
ArrayIndex == [k \in {"1", "2"} |-> IF k = "1" THEN 1 ELSE 2]
isArrayIndex(k) == k \in DOMAIN ArrayIndex
RECURSIVE ascending(_)
ascending(keys) ==
  IF keys = {} THEN <<>>
  ELSE LET least == CHOOSE k \in keys : \A k2 \in keys : ArrayIndex[k] <= ArrayIndex[k2]
       IN <<least>> \o ascending(keys \ {least})
\* Object.keys(obj): the array indices in ascending order, then the other keys in the order
\* of their insertion
ObjectKeys(obj) ==
  ascending({k \in Range(obj) : isArrayIndex(k)}) \o SelectSeq(obj, LAMBDA k : ~isArrayIndex(k))

\* render of the Changes column for a row shown, once the card is rendered (v-if="isLoaded")
renderChanges ==
  /\ isLoaded
  /\ \E i \in DOMAIN logs :
       LET labels == compareRecords(logs[i].data0, logs[i].data1, ObjectKeys(scheme))
       IN changes' = [id |-> logs[i].id, created |-> labels.created, fields |-> labels.fields]
  /\ UNCHANGED <<dbVars, cVars, iVars, pagination, logs, isLoading, isLoaded, inflight,
                 query, scheme, mpc>>

\* the entry of a comment: a value for every scheme field
EntryOf(v) == [k \in {"f1", "b", "1", "2"} |-> v]
\* the rows a comment may have had before an update: what the INSERT / UPDATE stores
BeforeSnapshots ==
  {EmptyObject} \cup
  {[id |-> Absent, text_id |-> Some(1), title |-> Some(t), published |-> Some(pb),
    priority |-> Some(1), tags |-> Some(tg), issues |-> Some(<< >>), entry |-> Some(EntryOf("x"))] :
     t \in {<< >>, <<"a">>}, pb \in {"true", "null"},
     tg \in {<< >>, <<1>>, <<1, 2>>, <<1, 1>>}}
\* the params of a call that wrote a log row, without id
AfterSnapshots ==
  {[id |-> Absent, text_id |-> Some(1), title |-> Some(t), published |-> pb,
    priority |-> Some(pr), tags |-> tg, issues |-> Some(is), entry |-> Some(EntryOf(e))] :
     t \in {<<"a">>, <<" ", "a">>, <<"b">>}, pb \in {Absent, Some("true")}, pr \in {1, 2},
     tg \in {Absent, Some(<< >>), Some(<<1>>), Some(<<2, 1>>), Some(<<1, 1>>), Some(<<1, 2>>)},
     is \in {<< >>, <<1>>}, e \in {"x", "y"}}
\* the schemes a text may define
SchemeChoices == {<<"f1">>, <<"f1", "b">>, <<"b", "1">>, <<"2", "1">>}
\* a log view opened on one log row
InitD ==
  /\ InitComments /\ InitIngest /\ InitLogsView /\ InitAccess /\ InitExtra
  /\ ov = [c \in Clients |-> NoWrites]
  /\ txn = [c \in Clients |-> "none"]
  /\ serial = [comments |-> 1, logs |-> 1, tags |-> 1, issues |-> 1, texts |-> 1]
  /\ pool = [clients |-> {}, idle |-> <<>>, pending |-> <<>>]
  /\ held = [p \in Procs |-> 0]
  /\ faults = 0
  /\ \E data0 \in BeforeSnapshots, data1 \in AfterSnapshots, ids \in SchemeChoices :
       db = [NoWrites EXCEPT
               !.logs = [k \in {1} |-> [user_id |-> "c1", table_name |-> "comments",
                                        record_id |-> 1, created |-> 1,
                                        data0 |-> data0, data1 |-> data1]],
               !.comments = StoredComments,
               !.texts = [id \in {1} |-> [scheme |-> ids]]]
NextD ==
  /\ \/ onBeforeMount \/ getLogs_reply \/ handlePageChange_resume \/ onBeforeMount_texts
     \/ renderChanges
  /\ UNCHANGED aVars /\ UNCHANGED xVars /\ UNCHANGED yVars
SpecD == InitD /\ [][NextD]_vars

\* ------------------------------------------------------- claims: getLogs
\* the log entries a request's filter matches
Matching(params) ==
  logsWhere(db.logs, numberOr(params.comment, 0), numberOr(params.id, 1))
\* entry a comes before entry b: created later, or created together and with the larger id
Newer(a, b) ==
  \/ db.logs[a].created > db.logs[b].created
  \/ db.logs[a].created = db.logs[b].created /\ a > b
Rank(params, a) == Cardinality({b \in Matching(params) : Newer(b, a)})

\* C12: with no writes between the requests, the reply to the request of a page holds
\* count = N, the number of matching entries, and min(P, N - offset) rows, the i-th of which
\* is the matching entry that has exactly offset + i - 1 matching entries before it in the
\* order created descending, id descending.
C12_PagesAreSlices ==
  \A r \in BagToSet(inflight) : r.reply # Absent =>
    LET P == r.params.limit[1]
        offset == r.params.offset[1]
        N == Cardinality(Matching(r.params))
        data == r.reply[1].data
    IN /\ r.reply[1].count = N
       /\ Len(data) = Min({P, N - offset})
       /\ \A i \in DOMAIN data :
            /\ data[i].id \in Matching(r.params)
            /\ Rank(r.params, data[i].id) = offset + i - 1
\* the second page of two matching entries created together, beside an entry not matching
C12_Witness ==
  \E r \in BagToSet(inflight) :
    /\ r.reply # Absent /\ r.params.limit[1] = 1 /\ r.params.offset[1] = 1
    /\ Len(r.reply[1].data) = 1 /\ r.reply[1].count = 2
    /\ \E a, b \in Matching(r.params) : a # b /\ db.logs[a].created = db.logs[b].created
    /\ \E a \in DOMAIN db.logs : a \notin Matching(r.params)

\* -------------------------------------------------- claims: compareRecords
\* the log row whose Changes column was rendered last
Rendered == db.logs[changes.id]
TagSet(prop) == IF prop = Absent THEN {} ELSE Range(prop[1])
FixedFields == <<"title", "priority", "published", "tags", "issues">>

\* C13: the rendered list names 'tags' exactly when the tag ids of data0 and of data1 differ
\* as sets.
C13_TagsChangedIffSetsDiffer ==
  (changes.id # 0 /\ ~changes.created) =>
    (("tags" \in Range(changes.fields))
       <=> (TagSet(Rendered.data0.tags) # TagSet(Rendered.data1.tags)))

\* C14: for a row whose data0 and data1 are the same snapshot with a title, the rendered
\* list is empty and is not the creation marker.
C14_SameSnapshotGivesEmptyDiff ==
  (changes.id # 0 /\ Rendered.data0 = Rendered.data1 /\ ~falsy(Rendered.data0.title)) =>
    (~changes.created /\ changes.fields = <<>>)

\* C15: the rendered list names title exactly when the trimmed titles differ, and priority
\* and published exactly when the values differ.
C15_ScalarsComparedAfterTrim ==
  (changes.id # 0 /\ ~changes.created) =>
    /\ ("title" \in Range(changes.fields))
         <=> (trim(Rendered.data0.title[1]) # trim(Rendered.data1.title[1]))
    /\ ("priority" \in Range(changes.fields))
         <=> (Rendered.data0.priority # Rendered.data1.priority)
    /\ ("published" \in Range(changes.fields))
         <=> (Rendered.data0.published # Rendered.data1.published)

\* C16: for every committed log row, compareRecords gives the creation marker exactly when
\* data0 has no title field.
C16_CreatedMarkerIffNoTitle ==
  \A k \in DOMAIN db.logs :
    compareRecords(db.logs[k].data0, db.logs[k].data1, SchemeKeys).created
      <=> (db.logs[k].data0.title = Absent)

\* C17: the rendered list is its fixed fields in the order title, priority, published, tags,
\* issues, followed by its scheme fields in the order in which the text's scheme defines them.
C17_FieldsInDefinitionOrder ==
  (changes.id # 0 /\ ~changes.created) =>
    changes.fields =
      SelectSeq(FixedFields, LAMBDA f : f \in Range(changes.fields))
        \o SelectSeq(db.texts[query.text_id].scheme, LAMBDA k : k \in Range(changes.fields))

\* ------------------------------ User.vue: tags, issues, texts and users
\* the ids a request may carry, as the text the client sends
RequestIds == {"", "1", "3", "01"}
\* Number(s), and PostgreSQL's cast of a text parameter to INTEGER, on these ids
Number(s) == CASE s = "1" -> 1 [] s = "2" -> 2 [] s = "3" -> 3 [] s = "01" -> 1 [] OTHER -> 0
\* String(n) on the ids of the users table
String(n) == <<"1", "2", "3">>[n]
\* LOWER($n) on the names a request may carry
LOWER(s) == IF s = "Dan" THEN "dan" ELSE s

\* the row of the users table behind a request: SELECT * from users WHERE id = $1 AND
\* activated = TRUE
getUserDataByID(id) == [id |-> id, privs |-> db.users[id].privs, activated |-> TRUE]
CurrentUsers == {getUserDataByID(id) : id \in {u \in DOMAIN db.users : db.users[u].activated}}

\* one more request is served; what it was is kept in op
Served(name, currentUser, target, status, ret) ==
  /\ op.n < MaxOps
  /\ op' = [n |-> op.n + 1, name |-> name, user |-> currentUser, target |-> target,
            status |-> status, ret |-> ret]

\* setTag(user, tagId, title): user is not read
setTag(user, tagId, title) ==
  \E ok \in BOOLEAN :
    /\ Outcome(ok)
    /\ LET id == Number(tagId) IN
       IF ~ok
       THEN UNCHANGED <<db, serial>> /\ Served("setTag", user, tagId, FALSE, "none")
       ELSE IF tagId # ""
       THEN /\ db' = IF id \in DOMAIN db.tags
                     THEN [db EXCEPT !.tags[id] = [title |-> title]] ELSE db
            /\ UNCHANGED serial
            /\ Served("setTag", user, tagId, FALSE,
                      IF id \in DOMAIN db.tags THEN "id" ELSE "none")
       ELSE /\ db' = [db EXCEPT !.tags = Put(@, serial.tags, [title |-> title])]
            /\ serial' = [serial EXCEPT !.tags = @ + 1]
            /\ Served("setTag", user, tagId, FALSE, "id")
    /\ UNCHANGED <<ov, txn, pool, held>>

\* setIssue(user, issueId, color, title): user is not read
setIssue(user, issueId, color, title) ==
  \E ok \in BOOLEAN :
    /\ Outcome(ok)
    /\ LET id == Number(issueId) IN
       IF ~ok
       THEN UNCHANGED <<db, serial>> /\ Served("setIssue", user, issueId, FALSE, "none")
       ELSE IF issueId # ""
       THEN /\ db' = IF id \in DOMAIN db.issues
                     THEN [db EXCEPT !.issues[id] = [color |-> color, title |-> title]]
                     ELSE db
            /\ UNCHANGED serial
            /\ Served("setIssue", user, issueId, FALSE,
                      IF id \in DOMAIN db.issues THEN "id" ELSE "none")
       ELSE /\ db' = [db EXCEPT !.issues = Put(@, serial.issues,
                                               [color |-> color, title |-> title])]
            /\ serial' = [serial EXCEPT !.issues = @ + 1]
            /\ Served("setIssue", user, issueId, FALSE, "id")
    /\ UNCHANGED <<ov, txn, pool, held>>

\* a table without the row id
Without(rows, id) == [k \in DOMAIN rows \ {id} |-> rows[k]]
\* the rows of SELECT .. from comments WHERE $1 = ANY (tags) for column = "tags", and of
\* SELECT .. from comments WHERE $1 = ANY (issues[:][1:1]) for column = "issues"
commentsWith(column, id) ==
  {c \in DOMAIN db.comments :
     \E k \in DOMAIN db.comments[c][column][1] :
       id = IF column = "tags" THEN db.comments[c].tags[1][k]
            ELSE db.comments[c].issues[1][k][1]}

\* deleteTag(user, tagId): user is not read
deleteTag(user, tagId) ==
  \E ok \in BOOLEAN :
    /\ Outcome(ok)
    /\ LET id == Number(tagId)
           comments == Cardinality(commentsWith("tags", id))
           success == ok /\ comments = 0 /\ id \in DOMAIN db.tags IN
       /\ db' = IF success THEN [db EXCEPT !.tags = Without(@, id)] ELSE db
       /\ Served("deleteTag", user, tagId, FALSE, IF success THEN "id" ELSE "none")
    /\ UNCHANGED <<serial, ov, txn, pool, held>>

\* deleteIssue(user, issueId): user is not read
deleteIssue(user, issueId) ==
  \E ok \in BOOLEAN :
    /\ Outcome(ok)
    /\ LET id == Number(issueId)
           comments == Cardinality(commentsWith("issues", id))
           success == ok /\ comments = 0 /\ id \in DOMAIN db.issues IN
       /\ db' = IF success THEN [db EXCEPT !.issues = Without(@, id)] ELSE db
       /\ Served("deleteIssue", user, issueId, FALSE, IF success THEN "id" ELSE "none")
    /\ UNCHANGED <<serial, ov, txn, pool, held>>

\* setTextProps(user, params), params = [id, author, title]: user is not read; the
\* columns meta .. colorselect are written like author and title and are left out
setTextProps(user, params) ==
  \E ok \in BOOLEAN :
    /\ Outcome(ok)
    /\ LET id == Number(params.id) IN
       IF ~(params.author # "" /\ params.title # "") \/ ~ok
       THEN UNCHANGED <<db, serial>> /\ Served("setTextProps", user, params.id, FALSE, "none")
       ELSE IF params.id # ""
       THEN /\ db' = IF id \in DOMAIN db.texts
                     THEN [db EXCEPT !.texts[id].author = params.author,
                                     !.texts[id].title = params.title]
                     ELSE db
            /\ UNCHANGED serial
            /\ Served("setTextProps", user, params.id, FALSE,
                      IF id \in DOMAIN db.texts THEN "id" ELSE "none")
       ELSE /\ db' = [db EXCEPT !.texts = Put(@, serial.texts,
                        [author |-> params.author, title |-> params.title, scheme |-> <<>>])]
            /\ serial' = [serial EXCEPT !.texts = @ + 1]
            /\ Served("setTextProps", user, params.id, FALSE, "id")
    /\ UNCHANGED <<ov, txn, pool, held>>

\* variant: currentUser.privs <= 5
isAdministrator_upToEditor(currentUser) == currentUser.privs <= 5
\* currentUser.privs === 1
isAdministrator(currentUser) == currentUser.privs = 1

\* elevateUser(currentUser, userId, userPrivs)
elevateUser(currentUser, userId, userPrivs) ==
  \E ok \in BOOLEAN :
    /\ Outcome(ok)
    /\ LET privs == IF userPrivs \in {1, 5, 7} THEN userPrivs ELSE 7
           id == Number(userId)
           hit == userId # "" /\ isAdministrator(currentUser) /\ ok /\ id \in DOMAIN db.users IN
       /\ db' = IF hit THEN [db EXCEPT !.users[id].privs = privs] ELSE db
       /\ Served("elevateUser", currentUser, userId, FALSE, IF hit THEN "id" ELSE "none")
    /\ UNCHANGED <<serial, ov, txn, pool, held>>

\* resetPassword(currentUser, id): the new hash is one no row has had
resetPassword(currentUser, id) ==
  \E ok \in BOOLEAN :
    /\ Outcome(ok)
    /\ LET userId == Number(id)
           done == isAdministrator(currentUser) /\ ok IN
       /\ db' = IF done /\ userId \in DOMAIN db.users
                THEN [db EXCEPT !.users[userId].passhash = op.n + 1] ELSE db
       /\ Served("resetPassword", currentUser, id, FALSE, IF done THEN "id" ELSE "error")
    /\ UNCHANGED <<serial, ov, txn, pool, held>>

\* updateUser(currentUser, props), props = [id, username, email]; firstname and lastname
\* are written like username and are left out
updateUser(currentUser, props) ==
  \E ok \in BOOLEAN :
    /\ Outcome(ok)
    /\ LET userId == Number(props.id)
           others == DOMAIN db.users \ {userId}
           allowed == userId # 0 /\ (currentUser.privs < 3 \/ currentUser.id = userId)
           emailTaken == \E x \in others : db.users[x].email = props.email
           usernameTaken == \E x \in others : db.users[x].username = props.username
           hit == allowed /\ ok /\ ~emailTaken /\ ~usernameTaken /\ userId \in DOMAIN db.users IN
       /\ db' = IF hit
                THEN [db EXCEPT !.users[userId].username = LOWER(props.username),
                                !.users[userId].email = LOWER(props.email)]
                ELSE db
       /\ Served("updateUser", currentUser, props.id, FALSE,
                 IF hit THEN "id"
                 ELSE IF allowed /\ ok /\ (emailTaken \/ usernameTaken) THEN "error"
                 ELSE "none")
    /\ UNCHANGED <<serial, ov, txn, pool, held>>

\* changeActivationStatus(currentUser, userId, status)
changeActivationStatus(currentUser, userId, status) ==
  \E ok \in BOOLEAN :
    /\ Outcome(ok)
    /\ LET id == Number(userId)
           hit == userId # "" /\ isAdministrator(currentUser) /\ ok /\ id \in DOMAIN db.users IN
       /\ db' = IF hit THEN [db EXCEPT !.users[id].activated = status] ELSE db
       /\ Served("changeActivationStatus", currentUser, userId, status,
                 IF hit THEN "id" ELSE "none")
    /\ UNCHANGED <<serial, ov, txn, pool, held>>

\* ------------------------------------------------ User.vue: the user form
\* the row getUsers(id) selects: SELECT id, .., privs, activated .. from users WHERE id = $1
getUsers(id) ==
  IF Number(id) \in DOMAIN db.users
  THEN [id |-> Number(id), privs |-> db.users[Number(id)].privs,
        activated |-> db.users[Number(id)].activated]
  ELSE NoUser
\* onBeforeMount of the form opened at the route /user/:id
userForm_onBeforeMount(id) ==
  /\ ~userForm.isLoaded
  /\ \E ok \in BOOLEAN :
       /\ Outcome(ok)
       /\ userForm' = [userForm EXCEPT !.id = id, !.isLoaded = TRUE,
                                       !.user = IF ok THEN getUsers(id) ELSE NoUser]
  /\ UNCHANGED <<db, serial, ov, txn, pool, held, op>>
\* the template shows the Deactivate button
DeactivateOffered ==
  /\ userForm.isLoaded
  /\ userForm.store.privs = 1
  /\ userForm.user.activated
  /\ String(userForm.store.id) # userForm.id
\* the template shows the Activate button
ActivateOffered ==
  /\ userForm.isLoaded
  /\ userForm.store.privs = 1
  /\ ~userForm.user.activated
\* click on Deactivate / Activate: changeActivationStatus(status) of the component, served
\* by changeActivationStatus of the server for the logged-in user
userForm_changeActivationStatus(status) ==
  /\ IF status THEN ActivateOffered ELSE DeactivateOffered
  /\ \E currentUser \in CurrentUsers :
       /\ currentUser.id = userForm.store.id
       /\ changeActivationStatus(currentUser, userForm.id, status)
  /\ userForm' = [userForm EXCEPT !.user.activated = IF op'.ret = "id" THEN status ELSE @]

\* requests of the users of the three tiers, served one after the other
InitUsers ==
  [id \in 1..3 |->
     [username |-> <<"ann", "bob", "cy">>[id], email |-> <<"a@", "b@", "c@">>[id],
      privs |-> <<1, 5, 7>>[id], activated |-> TRUE, passhash |-> 0]]
InitA ==
  /\ InitComments /\ InitIngest /\ InitLogsView /\ InitExtra
  /\ ov = [c \in Clients |-> NoWrites]
  /\ txn = [c \in Clients |-> "none"]
  /\ serial = [comments |-> 1, logs |-> 1, tags |-> 2, issues |-> 2, texts |-> 2]
  /\ pool = [clients |-> {}, idle |-> <<>>, pending |-> <<>>]
  /\ held = [p \in Procs |-> 0]
  /\ faults = 0
  /\ db = [NoWrites EXCEPT
             !.users = InitUsers,
             !.tags = [id \in {1} |-> [title |-> "t"]],
             !.issues = [id \in {1} |-> [color |-> "#000000", title |-> "i"]],
             !.texts = [id \in {1} |-> [author |-> "a", title |-> "t", scheme |-> SchemeKeys]]]
  /\ op = NoOp
  /\ \E u \in 1..3 :
       userForm = [store |-> [id |-> u, privs |-> InitUsers[u].privs, activated |-> TRUE],
                   id |-> "", user |-> NoUser, isLoaded |-> FALSE]
\* setComment(user, params): user is read for the log row only
setCommentAs(user) ==
  /\ cpc["c1"] = "idle"
  /\ setComment("c1")
  /\ Served("setComment", user, "", FALSE, "none")
Busy == cpc["c1"] \notin {"idle", "done"}
Request(currentUser) ==
  \/ \E tagId \in {"", "1"} : setTag(currentUser, tagId, "n")
  \/ \E issueId \in {"", "1"} : setIssue(currentUser, issueId, "#ffffff", "n")
  \/ deleteTag(currentUser, "1")
  \/ deleteIssue(currentUser, "1")
  \/ \E id \in {"", "1"}, author \in {"", "a"} :
       setTextProps(currentUser, [id |-> id, author |-> author, title |-> "n"])
  \/ \E userId \in RequestIds, userPrivs \in {1, 2} :
       elevateUser(currentUser, userId, userPrivs)
  \/ \E id \in RequestIds : resetPassword(currentUser, id)
  \/ \E id \in {"3", "01"}, username \in {"ann", "Dan"} :
       updateUser(currentUser, [id |-> id, username |-> username, email |-> "d@"])
  \/ \E userId \in RequestIds, status \in BOOLEAN :
       changeActivationStatus(currentUser, userId, status)
NextA ==
  /\ \/ (\E currentUser \in CurrentUsers : setCommentAs(currentUser))
          /\ UNCHANGED <<iVars, lVars, userForm>>
     \/ Busy /\ setComment("c1") /\ UNCHANGED <<iVars, lVars, aVars>>
     \/ ~Busy /\ (\E currentUser \in CurrentUsers : Request(currentUser))
          /\ UNCHANGED <<cVars, iVars, lVars, userForm>>
     \/ ~Busy /\ (\E id \in RequestIds \ {""} : userForm_onBeforeMount(id))
          /\ UNCHANGED <<cVars, iVars, lVars>>
     \/ ~Busy /\ (\E status \in BOOLEAN : userForm_changeActivationStatus(status))
          /\ UNCHANGED <<cVars, iVars, lVars>>
  /\ UNCHANGED xVars /\ UNCHANGED yVars
SpecA == InitA /\ [][NextA]_vars


\* ------------------------------------------------- claims: who may change what
\* the step serves a request, or runs a statement of the request op' names
ActsFor == op' # NoOp /\ (op'.n # op.n \/ op'.name = "setComment")
Content(tables) ==
  [comments |-> tables.comments, logs |-> tables.logs, tags |-> tables.tags,
   issues |-> tables.issues, texts |-> tables.texts]
Secrets(row) == [privs |-> row.privs, activated |-> row.activated, passhash |-> row.passhash]
ChangedUsers == {u \in DOMAIN db.users : db'.users[u] # db.users[u]}

\* C18: no step made for an actor of tier greater than 5 changes a comment, tag, issue or
\* text row or appends a log entry, and the only row of the users table such a step may
\* change is the actor's own
C18_ObserverChangesNoContent ==
  [][ (ActsFor /\ op'.user.privs > 5) =>
        /\ Content(db') = Content(db)
        /\ ChangedUsers \subseteq {op'.user.id} ]_vars

UserAdministration == {"elevateUser", "changeActivationStatus", "resetPassword"}
\* C19: the tier, the activation flag and the password hash of a user change only in a
\* step of elevateUser, changeActivationStatus or resetPassword made for an actor of tier
\* 1, and each of them changes its own column only; for any other actor these operations
\* leave the users table unchanged; updateUser made for an actor of another tier changes
\* no row but the actor's own
C19_UserAdministrationByAdministratorOnly ==
  [][ /\ (ActsFor /\ op'.name \in UserAdministration /\ op'.user.privs # 1) =>
           db'.users = db.users
      /\ \A u \in DOMAIN db.users :
           /\ u \in DOMAIN db'.users
           /\ Secrets(db'.users[u]) # Secrets(db.users[u]) =>
                /\ op'.n # op.n /\ op'.user.privs = 1 /\ Number(op'.target) = u
                /\ op'.name = "elevateUser" =>
                     [db'.users[u] EXCEPT !.privs = 0] = [db.users[u] EXCEPT !.privs = 0]
                /\ op'.name = "changeActivationStatus" =>
                     [db'.users[u] EXCEPT !.activated = TRUE]
                       = [db.users[u] EXCEPT !.activated = TRUE]
                /\ op'.name = "resetPassword" =>
                     [db'.users[u] EXCEPT !.passhash = 0] = [db.users[u] EXCEPT !.passhash = 0]
                /\ op'.name \in UserAdministration
      /\ (ActsFor /\ op'.name = "updateUser" /\ op'.user.privs # 1) =>
           ChangedUsers \subseteq {op'.user.id} ]_vars
\* a request of an editor to change a tier was served and refused, after an
\* administrator's request had changed one
C19_Witness ==
  /\ op.name = "elevateUser" /\ op.user.privs = 5 /\ op.user.id = 2
  /\ op.target = "3" /\ op.ret = "none" /\ op.n = 2
  /\ db.users[3].privs = 1
  /\ db.users[2].privs = 5

\* C20: a request to deactivate the user who makes it is refused and leaves the users
\* table as it was, and the user form shows no Deactivate button when the user it shows
\* is the logged-in user
C20_NoSelfDeactivation ==
  /\ [][ ( /\ op'.n # op.n /\ op'.name = "changeActivationStatus" /\ ~op'.status
           /\ Number(op'.target) = op'.user.id ) =>
           (op'.ret # "id" /\ db'.users = db.users) ]_vars
  /\ [](DeactivateOffered => userForm.user.id # userForm.store.id)


\* --------------------------------- User.vue: deleteTag, deleteIssue by statement
\* deleteTag(user, tagId) for table = "tags", deleteIssue(user, issueId) for "issues", up to
\* the first await; each pool.query runs on a session of its own and commits at once
deleteTag_call(table, id, ui) ==
  /\ del.pc = "idle"
  /\ del' = [pc |-> "select", table |-> table, id |-> id, comments |-> 0,
             success |-> FALSE, ui |-> ui]
\* result = await pool.query(sql, [tagId]); comments = result?.rows?.length
deleteTag_select ==
  /\ del.pc = "select"
  /\ \E ok \in BOOLEAN :
       /\ Outcome(ok)
       /\ LET comments == Cardinality(commentsWith(del.table, del.id)) IN
          del' = IF ~ok THEN [del EXCEPT !.pc = "done"]
                 ELSE [del EXCEPT !.comments = comments,
                                  !.pc = IF comments = 0 THEN "delete" ELSE "done"]
  /\ UNCHANGED <<db, ov, txn, serial, pool, held, cVars, iVars, lVars, aVars, tagsView>>
\* result = await pool.query('DELETE FROM tags where id = $1', [id]);
\* if (result?.rowCount === 1) success = true; return { id, comments, success }
deleteTag_delete ==
  /\ del.pc = "delete"
  /\ \E ok \in BOOLEAN :
       /\ Outcome(ok)
       /\ LET hit == ok /\ del.id \in DOMAIN db[del.table] IN
          /\ db' = IF hit THEN [db EXCEPT ![del.table] = Without(@, del.id)] ELSE db
          /\ del' = [del EXCEPT !.pc = "done", !.success = hit]
  /\ UNCHANGED <<ov, txn, serial, pool, held, cVars, iVars, lVars, aVars, tagsView>>

\* ---------------------------------------------------------- Tags.vue: the list
\* getTags(): SELECT * from tags ORDER by id DESC, as the ids
RECURSIVE getTags(_)
getTags(ids) ==
  IF ids = {} THEN <<>>
  ELSE LET top == CHOOSE a \in ids : \A b \in ids : a >= b
       IN <<top>> \o getTags(ids \ {top})
\* Object.assign(target, source) on arrays: source's elements are copied by index, the
\* elements of target beyond them and its length stay
ObjectAssign(target, source) ==
  [i \in 1..(IF Len(source) > Len(target) THEN Len(source) ELSE Len(target)) |->
     IF i <= Len(source) THEN source[i] ELSE target[i]]
\* onBeforeMount: Object.assign(tags, await store.get('tags')); isLoaded.value = true
tagsView_onBeforeMount ==
  /\ ~tagsView.isLoaded
  /\ \E ok \in BOOLEAN :
       /\ Outcome(ok)
       /\ tagsView' = [tags |-> ObjectAssign(tagsView.tags,
                                             IF ok THEN getTags(DOMAIN db.tags) ELSE <<>>),
                       isLoaded |-> TRUE]
  /\ UNCHANGED <<db, ov, txn, serial, pool, held, cVars, iVars, lVars, aVars, del>>
\* handleSelect(key, option) with the key of Delete, up to its await
handleSelect ==
  /\ tagsView.isLoaded
  /\ \E i \in DOMAIN tagsView.tags : deleteTag_call("tags", tagsView.tags[i], TRUE)
  /\ UNCHANGED <<dbVars, cVars, iVars, lVars, aVars, tagsView>>
\* handleSelect after its await:
\* if (data.success) Object.assign(tags, tags.filter((x) => x.id !== data?.id))
handleSelect_resume ==
  /\ del.pc = "done" /\ del.ui
  /\ tagsView' = IF del.success
                 THEN [tagsView EXCEPT !.tags =
                         ObjectAssign(@, SelectSeq(@, LAMBDA x : x # del.id))]
                 ELSE tagsView
  /\ del' = NoDelete
  /\ UNCHANGED <<dbVars, cVars, iVars, lVars, aVars>>
\* a deleteTag / deleteIssue request of another client, and its return
deleteTag_request ==
  /\ \E table \in {"tags", "issues"} : \E id \in DOMAIN db[table] : deleteTag_call(table, id, FALSE)
  /\ UNCHANGED <<dbVars, cVars, iVars, lVars, aVars, tagsView>>
deleteTag_return ==
  /\ del.pc = "done" /\ ~del.ui
  /\ del' = NoDelete
  /\ UNCHANGED <<dbVars, cVars, iVars, lVars, aVars, tagsView>>

\* the tags of the vocabulary when the view is opened
InitTags == {1, 2, 3}
\* a tag list opened while one caller saves a comment and tags and issues are deleted
InitT ==
  /\ InitComments /\ InitIngest /\ InitLogsView /\ InitAccess /\ InitExtra
  /\ ov = [c \in Clients |-> NoWrites]
  /\ txn = [c \in Clients |-> "none"]
  /\ serial = [comments |-> 1, logs |-> 1, tags |-> 4, issues |-> 2, texts |-> 2]
  /\ pool = [clients |-> {}, idle |-> <<>>, pending |-> <<>>]
  /\ held = [p \in Procs |-> 0]
  /\ faults = 0
  /\ db = [NoWrites EXCEPT
             !.tags = [id \in InitTags |-> [title |-> "t"]],
             !.issues = [id \in {1} |-> [color |-> "#000000", title |-> "i"]],
             !.texts = [id \in {1} |-> [author |-> "a", title |-> "t", scheme |-> SchemeKeys]]]
NextT ==
  /\ \/ setComment("c1") /\ UNCHANGED <<lVars, aVars, xVars>>
     \/ deleteTag_request
     \/ deleteTag_select
     \/ deleteTag_delete
     \/ deleteTag_return
     \/ tagsView_onBeforeMount
     \/ handleSelect
     \/ handleSelect_resume
  /\ UNCHANGED yVars
SpecT == InitT /\ [][NextT]_vars

\* ------------------------------------------------ claims: deleting a tag or issue
\* C21: no stored comment references a tag that was deleted, and a deleteTag / deleteIssue
\* call that found referencing comments returns their number with success = false and has
\* removed nothing - also when a setComment that adds the reference runs between the
\* reference check and the DELETE
C21_ReferencedTagNotDeleted ==
  /\ \A c \in DOMAIN db.comments :
       \A k \in DOMAIN db.comments[c].tags[1] :
         db.comments[c].tags[1][k] \in InitTags => db.comments[c].tags[1][k] \in DOMAIN db.tags
  /\ (del.pc = "done" /\ del.comments > 0) => (~del.success /\ del.id \in DOMAIN db[del.table])
  /\ (del.pc = "done" /\ del.success) => commentsWith(del.table, del.id) = {}

\* C29: when the server reports a delete as successful the list shown becomes the list
\* shown before without the deleted tag, in the same order; when it refuses, the list stays
C29_ListWithoutDeletedTag ==
  [][ (del.pc = "done" /\ del.ui /\ del'.pc = "idle") =>
        tagsView'.tags = IF del.success
                         THEN SelectSeq(tagsView.tags, LAMBDA x : x # del.id)
                         ELSE tagsView.tags ]_vars


\* ------------------------------------------------------- claims: the log view
\* C30: once every request of the log view has been answered and handled, the rows shown
\* and itemCount are those of the reply to the request for pagination.page, whatever the
\* order in which the replies arrived.
C30_ShownRowsAreOfCurrentPage ==
  (mpc # "start" /\ BagCardinality(inflight) = 0) =>
    LET reply == getLogs(db, [id |-> Some(query.text_id),
                              offset |-> Some((pagination.page - 1) * pagination.pageSize),
                              limit |-> Some(pagination.pageSize), comment |-> query.comment])
    IN logs = reply.data /\ pagination.itemCount = reply.count

\* ------------------------------------------------------- User.vue: getStats
\* SELECT count(*) as total, count(*) FILTER (where published = True) as ready,
\*        count(*) FILTER (where published != True) as draft FROM comments WHERE text_id = $1
\* (a comparison with NULL is NULL, and FILTER passes only the rows whose condition is true)
commentCounts(rows, textId) ==
  LET ofText == {c \in DOMAIN rows : rows[c].text_id = Some(textId)}
  IN [total |-> Cardinality(ofText),
      ready |-> Cardinality({c \in ofText : rows[c].published = Some("true")}),
      draft |-> Cardinality({c \in ofText : rows[c].published = Some("false")})]

\* select user_id, count(user_id) from logs WHERE (data0->>'text_id' = $1::text or
\* data1->>'text_id' = $1::text) GROUP BY user_id
changesByUser(rows, textId) ==
  LET ofText == logsWhere(rows, 0, textId)
  IN {[user_id |-> u, count |-> Cardinality({k \in ofText : rows[k].user_id = u})] :
        u \in {rows[k].user_id : k \in ofText}}
\* select cardinality(comments) as qty, count(*) from strings join tokens on
\* strings.token_id = tokens.id where text_id = $1 and meta = 'word' group by qty
wordsByComments(tables, textId) ==
  LET words == {s \in DOMAIN tables.strings :
                  /\ tables.strings[s].text_id = textId
                  /\ tables.strings[s].token_id # NULL
                  /\ tables.strings[s].token_id[1] \in DOMAIN tables.tokens
                  /\ tables.tokens[tables.strings[s].token_id[1]].meta = "word"}
  IN {[qty |-> n, count |-> Cardinality({s \in words : Len(tables.strings[s].comments) = n})] :
        n \in {Len(tables.strings[s].comments) : s \in words}}
\* select tags, count(tags) as qty from comments where text_id = $1 group by tags
commentsByTags(rows, textId) ==
  LET ofText == {c \in DOMAIN rows : rows[c].text_id = Some(textId)}
  IN {[tags |-> t, qty |-> Cardinality({c \in ofText : rows[c].tags = t})] :
        t \in {rows[c].tags : c \in ofText}}
\* now() when the estimate is computed: later than every log row
Now == 3
\* select round(extract(epoch from(created + ((now() - created) / $2)))) as etc from logs
\* WHERE (...) order by created asc limit 1, with $2 = ready / total: the values the query
\* may return for etc, and whether it may raise an error. No row gives etc undefined.
\* For total = 0 the ratio is NaN, sent as the float8 'NaN': the division of the interval
\* by NaN is rejected by some server versions and gives an interval without meaning on others.
\* For ready = 0 the ratio is 0: division by zero.
etcOutcomes(rows, textId, comments) ==
  LET ofText == logsWhere(rows, 0, textId)
      first == {k \in ofText : \A j \in ofText : rows[k].created <= rows[j].created}
      raised == [error |-> TRUE, etc |-> Absent]
  IN IF ofText = {} THEN {[error |-> FALSE, etc |-> Absent]}
     ELSE IF comments.total = 0
          THEN {raised} \cup {[error |-> FALSE, etc |-> Some(n)] : n \in 0..Now}
     ELSE IF comments.ready = 0 THEN {raised}
     ELSE {[error |-> FALSE,
            etc |-> Some(rows[k].created
                           + ((Now - rows[k].created) * comments.total) \div comments.ready)] :
             k \in first}
\* let data = {}
NoData == [empty |-> TRUE]
\* getStats(id): const textId = Number(id); if (textId) { ... } return data
getStats_call(id) ==
  /\ out.getStats.pc \in {"idle", "done"}
  /\ out' = [out EXCEPT !.getStats =
               IF Number(id) = 0 THEN [pc |-> "done", id |-> id, data |-> NoData]
               ELSE [pc |-> "comments", id |-> id, data |-> NoData]]
  /\ UNCHANGED <<dbVars, cVars, iVars, lVars, aVars, xVars, settings, spc>>
\* the five queries of getStats, one pool.query each; an error of any of them is caught and
\* data stays {}
getStats_query ==
  /\ out.getStats.pc \notin {"idle", "done"}
  /\ \E ok \in BOOLEAN :
       /\ Outcome(ok)
       /\ LET call == out.getStats
              textId == Number(call.id)
              failed == [call EXCEPT !.pc = "done"]
          IN IF ~ok THEN out' = [out EXCEPT !.getStats = failed]
             ELSE CASE call.pc = "comments" ->
                         out' = [out EXCEPT !.getStats = [pc |-> "changes", id |-> call.id,
                                   data |-> NoData,
                                   comments |-> commentCounts(db.comments, textId)]]
                    [] call.pc = "changes" ->
                         out' = [out EXCEPT !.getStats =
                                   [call EXCEPT !.pc = "words"] @@
                                   [changes |-> changesByUser(db.logs, textId)]]
                    [] call.pc = "words" ->
                         out' = [out EXCEPT !.getStats =
                                   [call EXCEPT !.pc = "tags"] @@
                                   [words |-> wordsByComments(db, textId)]]
                    [] call.pc = "tags" ->
                         out' = [out EXCEPT !.getStats =
                                   [call EXCEPT !.pc = "etc"] @@
                                   [tags |-> commentsByTags(db.comments, textId)]]
                    [] call.pc = "etc" ->
                         \E etc \in etcOutcomes(db.logs, textId, call.comments) :
                           out' = [out EXCEPT !.getStats =
                                     IF etc.error THEN failed
                                     ELSE [call EXCEPT !.pc = "done",
                                             !.data = [empty |-> FALSE, etc |-> etc.etc,
                                                       comments |-> call.comments,
                                                       changes |-> call.changes,
                                                       words |-> call.words,
                                                       tags |-> call.tags]]]
  /\ UNCHANGED <<db, ov, txn, serial, pool, held, cVars, iVars, lVars, aVars, xVars,
                 settings, spc>>

\* ------------------------------------------------------ User.vue: deleteById
\* the columns of the tables of the model that limits may name
Columns == [comments |-> {"text_id"}, logs |-> {}]
\* DELETE FROM ${table} WHERE id = $1 ${sqlLimit} RETURNING id, for limits = {} and
\* limits = { text_id: n }; an error (here: a column the table has not) is caught and []
\* is returned
deleteById(table, id, limits) ==
  /\ \E ok \in BOOLEAN :
       /\ Outcome(ok)
       /\ LET fails == ~ok \/ (limits # Absent /\ "text_id" \notin Columns[table])
              hit == /\ ~fails
                     /\ id \in DOMAIN db[table]
                     /\ limits # Absent => db[table][id].text_id = limits
          IN /\ db' = IF hit THEN [db EXCEPT ![table] = Without(@, id)] ELSE db
             /\ out' = [out EXCEPT !.deleteById =
                          [pc |-> "done", table |-> table, id |-> id,
                           data |-> IF hit THEN <<id>> ELSE <<>>]]
  /\ UNCHANGED <<ov, txn, serial, pool, held, cVars, iVars, lVars, aVars, xVars,
                 settings, spc>>

\* the ids getStats and deleteById are asked for
StatsIds == {"", "1", "2", "3"}
\* a store at rest that holds the log rows of earlier setComment calls; statistics are
\* asked for and rows are deleted
InitS ==
  /\ InitComments /\ InitIngest /\ InitLogsView /\ InitAccess /\ InitExtra
  /\ ov = [c \in Clients |-> NoWrites]
  /\ txn = [c \in Clients |-> "none"]
  /\ serial = [comments |-> 4, logs |-> MaxLogs + 1, tags |-> 1, issues |-> 1, texts |-> 1]
  /\ pool = [clients |-> {}, idle |-> <<>>, pending |-> <<>>]
  /\ held = [p \in Procs |-> 0]
  /\ faults = 0
  /\ \E n \in 0..MaxLogs : \E rows \in [1..n -> LogRows] :
       db = [NoWrites EXCEPT !.logs = rows, !.comments = StoredComments]
NextS ==
  /\ \/ \E id \in StatsIds : getStats_call(id)
     \/ getStats_query
     \/ \E table \in {"comments", "logs"}, id \in 1..MaxLogs, limits \in {Absent, Some(1)} :
          deleteById(table, id, limits)
SpecS == InitS /\ [][NextS]_vars

\* ------------------------------------- User.vue: the settings and createUser
\* databaseScheme.settings.split(',').map((x) => x.trim().split(' ').shift())
SettingsColumns == {"registration_open", "registration_code", "txtsizelimit", "imgsizelimit"}
\* INSERT INTO settings DEFAULT VALUES (registration_code is NULL)
DefaultSettings ==
  [registration_open |-> TRUE, registration_code |-> "NULL", txtsizelimit |-> 10,
   imgsizelimit |-> 1]
\* the params an updateSettings request may carry
SettingsParams ==
  { [registration_open |-> FALSE],
    [registration_code |-> "code"],
    [registration_open |-> TRUE, registration_code |-> ""],
    [registration_open |-> FALSE, registration_code |-> "code", txtsizelimit |-> 10,
     imgsizelimit |-> 1],
    [id |-> 1] }
\* Object.fromEntries(Object.entries(params).filter(([key]) => columns.includes(key)))
filterColumns(params) == [k \in DOMAIN params \cap SettingsColumns |-> params[k]]
\* updateSettings(user, params) up to its await: with no column left the statement is
\* UPDATE settings SET, a syntax error, and the call rejects (data -1: nothing is returned)
updateSettings_call(user, params) ==
  /\ out.updateSettings.pc \in {"idle", "done"}
  /\ IF user.privs < 3
     THEN \E ok \in BOOLEAN :
            /\ Outcome(ok)
            /\ LET supplied == filterColumns(params)
                   fails == ~ok \/ DOMAIN supplied = {}
               IN /\ db' = IF fails THEN db
                           ELSE [db EXCEPT !.settings =
                                   [r \in DOMAIN @ |-> Merge(@[r], supplied)]]
                  /\ out' = [out EXCEPT !.updateSettings =
                               IF fails THEN [pc |-> "done", data |-> -1]
                               ELSE [pc |-> "updated", query |-> supplied,
                                     rowCount |-> Cardinality(DOMAIN db.settings)]]
     ELSE /\ out' = [out EXCEPT !.updateSettings = [pc |-> "done", data |-> 0]]
          /\ UNCHANGED <<db, faults>>
  /\ UNCHANGED <<ov, txn, serial, pool, held, cVars, iVars, lVars, aVars, xVars,
                 settings, spc>>
\* if (rowCount === 1) settings = query; return rowCount
updateSettings_resume ==
  /\ out.updateSettings.pc = "updated"
  /\ settings' = IF out.updateSettings.rowCount = 1 THEN out.updateSettings.query ELSE settings
  /\ out' = [out EXCEPT !.updateSettings = [pc |-> "done", data |-> @.rowCount]]
  /\ UNCHANGED <<dbVars, cVars, iVars, lVars, aVars, xVars, spc>>

\* settings?.registration_open
registrationOpen(cache) ==
  "registration_open" \in DOMAIN cache /\ cache.registration_open
\* settings?.registration_code?.length && note.includes(settings.registration_code), for
\* the notes "" and "my code"
codeIncluded(cache, note) ==
  /\ "registration_code" \in DOMAIN cache
  /\ cache.registration_code \notin {"NULL", ""}
  /\ note = "my code" /\ cache.registration_code = "code"
\* the data a registration may carry
UserData ==
  [username : {"Dan", "ann"}, email : {"d@", "a@"}, note : {"", "my code"}]
\* createUser(user, data, status) up to its first await
createUser_call(data, status) ==
  /\ out.createUser.pc \in {"idle", "done"}
  /\ Cardinality(DOMAIN db.users) < MaxUsers
  /\ out' = [out EXCEPT !.createUser =
               IF ~(status \/ registrationOpen(settings))
               THEN [pc |-> "done", data |-> [error |-> "registration is closed"]]
               ELSE [pc |-> "select", args |-> data, status |-> status]]
  /\ UNCHANGED <<dbVars, cVars, iVars, lVars, aVars, xVars, settings, spc>>
\* usersData = await pool.query('SELECT * FROM users'), the uniqueness tests, the first user,
\* the registration code (tested with the cache as it is now); no error is caught
createUser_select ==
  /\ out.createUser.pc = "select"
  /\ \E ok \in BOOLEAN :
       /\ Outcome(ok)
       /\ LET call == out.createUser
              rows == db.users
              first == DOMAIN rows = {}
              isActivated == call.status \/ first \/ codeIncluded(settings, call.args.note)
          IN out' = [out EXCEPT !.createUser =
               IF ~ok THEN [pc |-> "done", data |-> [error |-> "rejected"]]
               ELSE IF \E x \in DOMAIN rows : rows[x].email = call.args.email
                    THEN [pc |-> "done", data |-> [error |-> "email not unique"]]
               ELSE IF \E x \in DOMAIN rows : rows[x].username = call.args.username
                    THEN [pc |-> "done", data |-> [error |-> "username not unique"]]
               ELSE [call EXCEPT !.pc = "insert"] @@
                    [privs |-> IF first THEN 1 ELSE 7, isActivated |-> isActivated,
                     setup |-> first]]
  /\ UNCHANGED <<db, ov, txn, serial, pool, held, cVars, iVars, lVars, aVars, xVars,
                 settings, spc>>
\* INSERT INTO users (...) VALUES(NOW(), LOWER($1), ..., LOWER($4), ...) RETURNING id;
\* return { message: pwd, status: isActivated, setup }. The id is the next one of an
\* users table from which nothing was deleted.
createUser_insert ==
  /\ out.createUser.pc = "insert"
  /\ \E ok \in BOOLEAN :
       /\ Outcome(ok)
       /\ LET call == out.createUser
              id == Cardinality(DOMAIN db.users) + 1
              row == [username |-> LOWER(call.args.username), email |-> LOWER(call.args.email),
                      privs |-> call.privs, activated |-> call.isActivated, passhash |-> 1]
          IN /\ db' = IF ok THEN [db EXCEPT !.users = Put(@, id, row)] ELSE db
             /\ out' = [out EXCEPT !.createUser =
                          IF ok THEN [pc |-> "done",
                                      data |-> [error |-> "", status |-> call.isActivated,
                                                setup |-> call.setup]]
                          ELSE [pc |-> "done", data |-> [error |-> "rejected"]]]
  /\ UNCHANGED <<ov, txn, serial, pool, held, cVars, iVars, lVars, aVars, xVars,
                 settings, spc>>

\* the server after its start: the settings table holds its one row and
\* let settings = await getSettings() has read it ([] when the query failed)
InitP ==
  /\ InitComments /\ InitIngest /\ InitLogsView /\ InitAccess
  /\ ov = [c \in Clients |-> NoWrites]
  /\ txn = [c \in Clients |-> "none"]
  /\ serial = [comments |-> 1, logs |-> 1, tags |-> 1, issues |-> 1, texts |-> 1]
  /\ pool = [clients |-> {}, idle |-> <<>>, pending |-> <<>>]
  /\ held = [p \in Procs |-> 0]
  /\ faults = 0
  /\ db = [NoWrites EXCEPT !.settings = [r \in {1} |-> DefaultSettings]]
  /\ del = NoDelete
  /\ tagsView = [tags |-> <<>>, isLoaded |-> FALSE]
  /\ out = NoCall
  /\ spc = [p \in SProcs |-> NoStringCall]
  /\ settings \in {DefaultSettings, NoSettings}
NextP ==
  \/ \E privs \in {1, 5}, params \in SettingsParams :
       updateSettings_call([privs |-> privs], params)
  \/ updateSettings_resume
  \/ \E data \in UserData, status \in BOOLEAN : createUser_call(data, status)
  \/ createUser_select
  \/ createUser_insert
SpecP == InitP /\ [][NextP]_vars

\* --------------- User.vue: setCommentForString, removeCommentFromString
\* array_remove(comments, $1) and array_append(comments, $1)
array_remove(array, x) == SelectSeq(array, LAMBDA y : y # x)
array_append(array, x) == Append(array, x)
\* UPDATE strings SET comments = array_append(comments, $1) (append) or
\* array_remove(comments, $1) WHERE id = ANY($2::int[])
updateComments(rows, tokens, id, append) ==
  [s \in DOMAIN rows |->
     IF s \in tokens
     THEN [rows[s] EXCEPT !.comments = IF append THEN array_append(@, id)
                                       ELSE array_remove(@, id)]
     ELSE rows[s]]
\* RETURNING id, as the ids in ascending order
RECURSIVE returningId(_)
returningId(ids) ==
  IF ids = {} THEN <<>>
  ELSE LET least == CHOOSE a \in ids : \A b \in ids : a[2] <= b[2]
       IN <<least>> \o returningId(ids \ {least})
\* the ids and the string ids a request may carry (0: no id)
StringIds == {<<1, 1>>, <<1, 2>>}
\* setCommentForString(user, params) up to its first await
setCommentForString_call(p, id, tokens) ==
  /\ spc[p].pc \in {"idle", "done"} /\ spc[p].calls < MaxCalls
  /\ spc' = [spc EXCEPT ![p] =
               [pc |-> IF id # 0 /\ tokens # {} THEN "remove" ELSE "done",
                id |-> id, tokens |-> tokens, data |-> <<>>, calls |-> @.calls + 1]]
  /\ UNCHANGED <<dbVars, cVars, iVars, lVars, aVars, xVars, out, settings>>
\* await pool.query(sql1, [commentId, stringTokenIds]); an error is caught, data stays {}
setCommentForString_remove(p) ==
  /\ spc[p].pc = "remove"
  /\ \E ok \in BOOLEAN :
       /\ Outcome(ok)
       /\ db' = IF ok
                THEN [db EXCEPT !.strings = updateComments(@, spc[p].tokens,
                                  spc[p].id, FALSE)]
                ELSE db
       /\ spc' = [spc EXCEPT ![p].pc = IF ok THEN "append" ELSE "done"]
  /\ UNCHANGED <<ov, txn, serial, pool, held, cVars, iVars, lVars, aVars, xVars, out,
                 settings>>
\* const result = await pool.query(sql2, [commentId, stringTokenIds]); data = result?.rows
setCommentForString_append(p) ==
  /\ spc[p].pc = "append"
  /\ \E ok \in BOOLEAN :
       /\ Outcome(ok)
       /\ db' = IF ok
                THEN [db EXCEPT !.strings = updateComments(@, spc[p].tokens,
                                  spc[p].id, TRUE)]
                ELSE db
       /\ spc' = [spc EXCEPT ![p].pc = "done",
                             ![p].data = IF ok THEN returningId(spc[p].tokens \cap DOMAIN db.strings)
                                         ELSE <<>>]
  /\ UNCHANGED <<ov, txn, serial, pool, held, cVars, iVars, lVars, aVars, xVars, out,
                 settings>>
\* removeCommentFromString(user, params): its one statement
removeCommentFromString(p, id, tokens) ==
  /\ spc[p].pc \in {"idle", "done"} /\ spc[p].calls < MaxCalls
  /\ \E ok \in BOOLEAN :
       /\ (id = 0 \/ tokens = {}) => ok
       /\ Outcome(ok)
       /\ LET runs == ok /\ id # 0 /\ tokens # {}
          IN /\ db' = IF runs
                      THEN [db EXCEPT !.strings = updateComments(@, tokens, id, FALSE)]
                      ELSE db
             /\ spc' = [spc EXCEPT ![p] =
                          [pc |-> "done", id |-> id, tokens |-> tokens,
                           data |-> IF runs THEN returningId(tokens \cap DOMAIN db.strings)
                                    ELSE <<>>,
                           calls |-> @.calls + 1]]
  /\ UNCHANGED <<ov, txn, serial, pool, held, cVars, iVars, lVars, aVars, xVars, out,
                 settings>>

\* a text of two strings that carry no comment yet; comments are bound to them and unbound
InitG ==
  /\ InitComments /\ InitIngest /\ InitLogsView /\ InitAccess /\ InitExtra
  /\ ov = [c \in Clients |-> NoWrites]
  /\ txn = [c \in Clients |-> "none"]
  /\ serial = [comments |-> 1, logs |-> 1, tags |-> 1, issues |-> 1, texts |-> 2]
  /\ pool = [clients |-> {}, idle |-> <<>>, pending |-> <<>>]
  /\ held = [p \in Procs |-> 0]
  /\ faults = 0
  /\ db = [NoWrites EXCEPT !.strings =
             [s \in StringIds |-> [text_id |-> 1, p |-> s[2], repr |-> "cat",
                                   token_id |-> NULL, comments |-> <<>>]]]
NextG ==
  \/ \E p \in SProcs, id \in 0..2, tokens \in SUBSET StringIds :
       setCommentForString_call(p, id, tokens)
  \/ \E p \in SProcs : setCommentForString_remove(p)
  \/ \E p \in SProcs : setCommentForString_append(p)
  \/ \E p \in SProcs, id \in 0..2, tokens \in SUBSET StringIds :
       removeCommentFromString(p, id, tokens)
SpecG == InitG /\ [][NextG]_vars

\* ------------------------------------------------------- claims: getStats
\* C22: in every state of the comments table and for every text, the counts getStats reads
\* satisfy total = ready + draft, also for comments setComment created without a published
\* value.
C22_TotalIsReadyPlusDraft ==
  \A textId \in {1, 2} :
    LET comments == commentCounts(db.comments, textId)
    IN comments.total = comments.ready + comments.draft

\* ------------------------------------------- claims: the snapshots of setComment
\* C25: when a setComment call commits, the data1 of its log row is the comment row it
\* stored (all fields but id; the title the trimmed one), and of two consecutive log rows of
\* one comment the later one's data0 is the earlier one's data1.
C25_AfterSnapshotIsStoredRow ==
  [][ /\ \A p \in CProcs :
           (cpc[p] = "commit" /\ cpc'[p] = "done" /\ cret'[p].kind = "data") =>
             db'.logs[cret'[p].change].data1
               = cleanCommentObject(selectComment(cret'[p].id, db'.comments[cret'[p].id]))
      /\ \A k1, k2 \in DOMAIN db'.logs :
           ( /\ k1 < k2
             /\ db'.logs[k1].record_id = db'.logs[k2].record_id
             /\ \A k \in DOMAIN db'.logs :
                  db'.logs[k].record_id = db'.logs[k1].record_id => ~(k1 < k /\ k < k2) )
           => db'.logs[k2].data0 = db'.logs[k1].data1 ]_vars

\* ------------------------------------------------- claims: the backfill statement
\* C26: the backfill statement of an ingestion with language L changes the token_id only
\* of strings of texts that were loaded with language L; a string of a text of another
\* language keeps the token it is linked to.
C26_BackfillKeepsOtherLanguages ==
  [][ \A p \in IProcs :
        (ipc[p] = "backfill" /\ ipc'[p] = "commit") =>
          \A id \in DOMAIN View(St, held[p], "strings") :
            LET before == View(St, held[p], "strings")[id]
                after == Merge(db'.strings, ov'[held[p]].strings)[id]
            IN after.token_id # before.token_id =>
                 \E q \in IProcs : /\ TextOf[q] = before.text_id
                                   /\ iarg[q].langId = iarg[p].langId ]_vars

\* ------------------------------------------- claims: getStats and deleteById
\* C23: a getStats call that counted no comments for its text (total = 0) and met no failing
\* connection returns no estimate and its other aggregates, the counts with total 0 among
\* them; it does not come back empty-handed because of the division.
C23_NoCommentsGivesNoEstimate ==
  LET call == out.getStats
  IN (call.pc = "done" /\ faults = 0 /\ "comments" \in DOMAIN call /\ call.comments.total = 0) =>
       /\ ~call.data.empty
       /\ call.data.etc = Absent
       /\ call.data.comments.total = 0

\* C24: no step of the store removes or changes a log row: every row of logs is there
\* afterwards with the same user_id, record_id, created, data0 and data1.
C24_LogIsAppendOnly ==
  [][ \A k \in DOMAIN db.logs : k \in DOMAIN db'.logs /\ db'.logs[k] = db.logs[k] ]_vars

\* ------------------------------------------------- claims: the settings cache
\* C27: once an updateSettings call that updated the row has returned, the cached settings
\* equal the stored row in every column, so that the registration_open and
\* registration_code tests of createUser decide as the stored row does.
C27_CacheEqualsStoredRow ==
  (out.updateSettings.pc = "done" /\ out.updateSettings.data = 1) =>
    /\ \A k \in SettingsColumns : k \in DOMAIN settings /\ settings[k] = db.settings[1][k]
    /\ registrationOpen(settings) = db.settings[1].registration_open
    /\ codeIncluded(settings, "my code") = codeIncluded(db.settings[1], "my code")

\* ------------------------------------------- claims: the comments of a string
\* C28: in every state reached by setCommentForString and removeCommentFromString calls,
\* also calls for the same comment and string whose statements interleave, no comment id
\* occurs twice in the comments array of a string.
C28_CommentBoundOnce ==
  \A s \in DOMAIN db.strings :
    \A i, j \in DOMAIN db.strings[s].comments :
      i # j => db.strings[s].comments[i] # db.strings[s].comments[j]

====
